---- MODULE Spec2Model ----
(***************************************************************************)
(* Market-data service of the trading bot monorepo: the Kraken client, the *)
(* pair-catalog cache layer (Redis) and the ingestion handlers that write  *)
(* to the remote prepared-statement store.                                 *)
(*                                                                         *)
(* Text is modelled as a sequence of one-character strings, so that the    *)
(* code's character-level operations (replace, upper, substring, sorted)   *)
(* are computed rather than assumed.  Python's None is the empty sequence  *)
(* None and a present optional value v is the one-element sequence <<v>>.  *)
(***************************************************************************)
EXTENDS Integers, Sequences, FiniteSets, TLC

VARIABLES
    symbols,            \* store table symbols: a set of rows
    market_data,        \* store table market_data: a set of rows
    real_time_prices,   \* store table real_time_prices: a set of rows
    db_clock,           \* the store's clock, read by CURRENT_TIMESTAMP
    ireq,               \* the ingestion requests in flight: id -> frame of the handler
    redis,              \* the Redis server's keys: key -> None or Some([val, ttl])
    redis_up,           \* the Redis server answers
    cache_instance,     \* redis_client._cache_instance: "unset", "noclient" or "client"
    exchange_pairs,     \* the pair catalog the exchange serves now
    creq,               \* the catalog requests in flight: id -> frame of the handler
    last_writer,        \* history: the request whose write of the pairs key came last
    sreq,               \* the symbol syncs in flight: id -> frame of the handler
    qreq,               \* the catalog query of a deployment without cache: its frame
    kreq,               \* a call of the exchange client: what it was given and returned
    preq,               \* a call of a parser of the exchange client: its input and output
    dreq                \* a direct client of the store: its last call and what it returned

ingest_vars == <<symbols, market_data, real_time_prices, db_clock, ireq>>

catalog_vars == <<redis, redis_up, cache_instance, exchange_pairs, creq, last_writer>>

vars == <<ingest_vars, catalog_vars, sreq, qreq, kreq, preq, dreq>>

----------------------------------------------------------------------------
\* Bounds of the model.
MaxIngest == 2

MaxCatalog == 2

MaxSync == 2

----------------------------------------------------------------------------
\* Optional values.
None == << >>

Some(v) == <<v>>

The(opt) == opt[1]

----------------------------------------------------------------------------
\* Text helpers.
LowerLetters == <<"a","b","c","d","e","f","g","h","i","j","k","l","m","n","o","p","q","r","s","t","u","v","w","x","y","z">>

UpperLetters == <<"A","B","C","D","E","F","G","H","I","J","K","L","M","N","O","P","Q","R","S","T","U","V","W","X","Y","Z">>

\* str.upper(), character by character.
StrUpper(s) ==
    [i \in DOMAIN s |->
        IF \E k \in DOMAIN LowerLetters : LowerLetters[k] = s[i]
        THEN UpperLetters[CHOOSE k \in DOMAIN LowerLetters : LowerLetters[k] = s[i]]
        ELSE s[i]]

\* str.replace(c, ""): every occurrence of the character c removed.
StrRemove(s, c) == SelectSeq(s, LAMBDA x : x # c)

\* dict.get(key, default) on a function.
DictGet(d, key, default) == IF key \in DOMAIN d THEN d[key] ELSE default

----------------------------------------------------------------------------
\* kraken_client.py

normalize_mappings ==
    (<<"B","T","C">> :> <<"X","B","T">>)
    @@ (<<"B","T","C","U","S","D">> :> <<"X","B","T","U","S","D">>)
    @@ (<<"B","T","C","U","S","D","T">> :> <<"X","B","T","U","S","D","T">>)
    @@ (<<"E","T","H","U","S","D">> :> <<"E","T","H","U","S","D">>)
    @@ (<<"E","T","H","U","S","D","T">> :> <<"E","T","H","U","S","D","T">>)

\* As normalize_pair, without the .replace("-", "").
normalize_pair_SlashOnly(pair) ==
    LET cleaned == StrUpper(StrRemove(pair, "/"))
    IN  DictGet(normalize_mappings, cleaned, cleaned)

normalize_pair(pair) ==
    LET cleaned == StrUpper(StrRemove(StrRemove(pair, "/"), "-"))
    IN  DictGet(normalize_mappings, cleaned, cleaned)

get_kraken_symbol_mapping ==
    (<<"X","B","T","U","S","D">> :> <<"B","T","C","/","U","S","D">>)
    @@ (<<"X","B","T","U","S","D","T">> :> <<"B","T","C","/","U","S","D","T">>)
    @@ (<<"E","T","H","U","S","D">> :> <<"E","T","H","/","U","S","D">>)
    @@ (<<"E","T","H","U","S","D","T">> :> <<"E","T","H","/","U","S","D","T">>)
    @@ (<<"A","D","A","U","S","D">> :> <<"A","D","A","/","U","S","D">>)
    @@ (<<"A","D","A","U","S","D","T">> :> <<"A","D","A","/","U","S","D","T">>)
    @@ (<<"S","O","L","U","S","D">> :> <<"S","O","L","/","U","S","D">>)
    @@ (<<"S","O","L","U","S","D","T">> :> <<"S","O","L","/","U","S","D","T">>)
    @@ (<<"D","O","T","U","S","D">> :> <<"D","O","T","/","U","S","D">>)
    @@ (<<"D","O","T","U","S","D","T">> :> <<"D","O","T","/","U","S","D","T">>)
    @@ (<<"M","A","T","I","C","U","S","D">> :> <<"M","A","T","I","C","/","U","S","D">>)
    @@ (<<"M","A","T","I","C","U","S","D","T">> :> <<"M","A","T","I","C","/","U","S","D","T">>)
    @@ (<<"L","I","N","K","U","S","D">> :> <<"L","I","N","K","/","U","S","D">>)
    @@ (<<"L","I","N","K","U","S","D","T">> :> <<"L","I","N","K","/","U","S","D","T">>)
    @@ (<<"A","V","A","X","U","S","D">> :> <<"A","V","A","X","/","U","S","D">>)
    @@ (<<"A","V","A","X","U","S","D","T">> :> <<"A","V","A","X","/","U","S","D","T">>)
    @@ (<<"A","T","O","M","U","S","D">> :> <<"A","T","O","M","/","U","S","D">>)
    @@ (<<"A","T","O","M","U","S","D","T">> :> <<"A","T","O","M","/","U","S","D","T">>)
    @@ (<<"A","L","G","O","U","S","D">> :> <<"A","L","G","O","/","U","S","D">>)
    @@ (<<"A","L","G","O","U","S","D","T">> :> <<"A","L","G","O","/","U","S","D","T">>)

\* The keys of get_kraken_symbol_mapping() in the order of the dict literal,
\* which is the order in which a for loop over .items() meets them.
symbol_mapping_order ==
    << <<"X","B","T","U","S","D">>, <<"X","B","T","U","S","D","T">>,
       <<"E","T","H","U","S","D">>, <<"E","T","H","U","S","D","T">>,
       <<"A","D","A","U","S","D">>, <<"A","D","A","U","S","D","T">>,
       <<"S","O","L","U","S","D">>, <<"S","O","L","U","S","D","T">>,
       <<"D","O","T","U","S","D">>, <<"D","O","T","U","S","D","T">>,
       <<"M","A","T","I","C","U","S","D">>, <<"M","A","T","I","C","U","S","D","T">>,
       <<"L","I","N","K","U","S","D">>, <<"L","I","N","K","U","S","D","T">>,
       <<"A","V","A","X","U","S","D">>, <<"A","V","A","X","U","S","D","T">>,
       <<"A","T","O","M","U","S","D">>, <<"A","T","O","M","U","S","D","T">>,
       <<"A","L","G","O","U","S","D">>, <<"A","L","G","O","U","S","D","T">> >>

\* A raw OHLC row is [time, open, high, low, close, vwap, volume, count]; the
\* numeric strings of the payload are written as the numbers they denote.
OHLC_FIELDS == 8

\* As parse_ohlc_data, with the indices of high and low exchanged.
RECURSIVE parse_ohlc_data_SwappedHighLow(_, _, _)
parse_ohlc_data_SwappedHighLow(ohlc_data, timeframe, pair) ==
    IF ohlc_data = << >> THEN << >>
    ELSE LET record == Head(ohlc_data)
             rest == parse_ohlc_data_SwappedHighLow(Tail(ohlc_data), timeframe, pair)
         IN  IF Len(record) < OHLC_FIELDS THEN rest
             ELSE << [timestamp |-> record[1],
                      open |-> record[2],
                      high |-> record[4],
                      low |-> record[3],
                      close |-> record[5],
                      volume |-> record[7],
                      adjusted_close |-> Some(record[5]),
                      time_frame |-> timeframe,
                      data_source |-> "kraken",
                      pair |-> pair] >> \o rest

\* As parse_ohlc_data, with "break" for the "continue" of a short row.
RECURSIVE parse_ohlc_data_StopAtShort(_, _, _)
parse_ohlc_data_StopAtShort(ohlc_data, timeframe, pair) ==
    IF ohlc_data = << >> THEN << >>
    ELSE LET record == Head(ohlc_data)
             rest == parse_ohlc_data_StopAtShort(Tail(ohlc_data), timeframe, pair)
         IN  IF Len(record) < OHLC_FIELDS THEN << >>
             ELSE << [timestamp |-> record[1],
                      open |-> record[2],
                      high |-> record[3],
                      low |-> record[4],
                      close |-> record[5],
                      volume |-> record[7],
                      adjusted_close |-> Some(record[5]),
                      time_frame |-> timeframe,
                      data_source |-> "kraken",
                      pair |-> pair] >> \o rest

RECURSIVE parse_ohlc_data(_, _, _)
parse_ohlc_data(ohlc_data, timeframe, pair) ==
    IF ohlc_data = << >> THEN << >>
    ELSE LET record == Head(ohlc_data)
             rest == parse_ohlc_data(Tail(ohlc_data), timeframe, pair)
         IN  IF Len(record) < OHLC_FIELDS THEN rest
             ELSE << [timestamp |-> record[1],
                      open |-> record[2],
                      high |-> record[3],
                      low |-> record[4],
                      close |-> record[5],
                      volume |-> record[7],
                      adjusted_close |-> Some(record[5]),
                      time_frame |-> timeframe,
                      data_source |-> "kraken",
                      pair |-> pair] >> \o rest

\* A scalar of a JSON payload, as Python sees it: a number, a text that
\* denotes a number, the empty text, a text that denotes none, or a list.
Num(n) == [kind |-> "num", form |-> "numeric", val |-> n]

Str(n) == [kind |-> "str", form |-> "numeric", val |-> n]

EmptyStr == [kind |-> "str", form |-> "empty", val |-> 0]

JunkStr == [kind |-> "str", form |-> "junk", val |-> 0]

ListVal == [kind |-> "list", form |-> "junk", val |-> 0]

\* bool(v)
Truthy(v) == IF v.kind = "num" THEN v.val # 0 ELSE v.form # "empty" \/ v.kind = "list"

\* float(v): the number, or the ValueError / TypeError it raises.
Float(v) == IF v.form = "numeric" THEN [raised |-> FALSE, val |-> v.val]
            ELSE [raised |-> TRUE, val |-> 0]

\* As parse_ticker_data, with "if open_price is not None" for the percentage:
\* an open price of zero divides by zero.
parse_ticker_data_NoPositiveCheck(ticker_data, pair) ==
    LET ask == DictGet(ticker_data, "a", <<0, 0, 0>>)
        bid == DictGet(ticker_data, "b", <<0, 0, 0>>)
        close == DictGet(ticker_data, "c", <<0, 0>>)
        volume == DictGet(ticker_data, "v", <<0, 0>>)
        current_price == IF close # << >> THEN close[1] ELSE 0
        ask_price == IF ask # << >> THEN Some(ask[1]) ELSE None
        bid_price == IF bid # << >> THEN Some(bid[1]) ELSE None
        volume_24h == IF Len(volume) > 1 THEN Some(volume[2]) ELSE None
        open_price_raw == DictGet(ticker_data, "o", Num(0))
        converted == Float(open_price_raw)
        open_price == IF Truthy(open_price_raw) /\ ~converted.raised
                      THEN Some(converted.val) ELSE None
    IN  IF open_price # None /\ The(open_price) = 0 THEN [raised |-> "ZeroDivisionError"]
        ELSE [price |-> current_price,
              bid |-> bid_price,
              ask |-> ask_price,
              volume_24h |-> IF volume_24h # None /\ The(volume_24h) # 0 THEN volume_24h
                             ELSE None,
              change_24h |-> IF open_price # None THEN Some(current_price - The(open_price))
                             ELSE None,
              change_percent_24h |->
                  IF open_price # None
                  THEN Some(<<(current_price - The(open_price)) * 100, The(open_price)>>)
                  ELSE None,
              data_source |-> "kraken",
              pair |-> pair]

\* A raw ticker payload is a function from the field letters it carries to
\* sequences of numbers, "o" to a scalar.  Python truthiness is kept: a
\* missing sub-array defaults to zeros, 0.0 is falsy.  change_percent_24h is
\* kept as the exact fraction <<numerator, denominator>> of the float division.
parse_ticker_data(ticker_data, pair) ==
    LET ask == DictGet(ticker_data, "a", <<0, 0, 0>>)
        bid == DictGet(ticker_data, "b", <<0, 0, 0>>)
        close == DictGet(ticker_data, "c", <<0, 0>>)
        volume == DictGet(ticker_data, "v", <<0, 0>>)
        current_price == IF close # << >> THEN close[1] ELSE 0
        ask_price == IF ask # << >> THEN Some(ask[1]) ELSE None
        bid_price == IF bid # << >> THEN Some(bid[1]) ELSE None
        volume_24h == IF Len(volume) > 1 THEN Some(volume[2]) ELSE None
        open_price_raw == DictGet(ticker_data, "o", Num(0))
        \* try: float(raw) if raw else None / except (ValueError, TypeError): None
        converted == Float(open_price_raw)
        open_price == IF Truthy(open_price_raw) /\ ~converted.raised
                      THEN Some(converted.val) ELSE None
    IN  [price |-> current_price,
         bid |-> bid_price,
         ask |-> ask_price,
         volume_24h |-> IF volume_24h # None /\ The(volume_24h) # 0 THEN volume_24h ELSE None,
         change_24h |-> IF open_price # None THEN Some(current_price - The(open_price)) ELSE None,
         change_percent_24h |->
             IF open_price # None /\ The(open_price) > 0
             THEN Some(<<(current_price - The(open_price)) * 100, The(open_price)>>)
             ELSE None,
         data_source |-> "kraken",
         pair |-> pair]

\* KrakenClient._make_request.  wire is what the network gives to the requests
\* of one call, in order: a transport failure, an HTTP error status, or a JSON
\* body.  The outcome tells how many requests were sent, whether the call
\* raised, and the result it returned.
Raised(sent) == [sent |-> sent, raised |-> TRUE, result |-> << >>]

\* As _make_request, trying once more when the first request fails.
_make_request_Retry(wire) ==
    LET attempt(response, sent) ==
            IF response.kind # "json" THEN Raised(sent)
            ELSE IF DictGet(response.body, "error", << >>) # << >> THEN Raised(sent)
            ELSE [sent |-> sent, raised |-> FALSE,
                  result |-> DictGet(response.body, "result", << >>)]
        first == attempt(wire[1], 1)
    IN  IF first.raised THEN attempt(wire[2], 2) ELSE first

_make_request(wire) ==
    LET response == Head(wire)
    IN  IF response.kind # "json" THEN Raised(1)
        ELSE LET data == response.body
             IN  IF DictGet(data, "error", << >>) # << >> THEN Raised(1)
                 ELSE [sent |-> 1, raised |-> FALSE,
                       result |-> DictGet(data, "result", << >>)]

\* The result of OHLC and Ticker is a dict, written as the sequence of its
\* items <<key, value>> in the order of the JSON object, which is the order of
\* list(result.keys()).
LastKey == <<"l","a","s","t">>

\* result.get(key, default) on the items of a dict.
ItemsGet(items, key, default) ==
    IF \E i \in DOMAIN items : items[i][1] = key
    THEN items[CHOOSE i \in DOMAIN items : items[i][1] = key][2]
    ELSE default

get_ohlc(pair, interval, wire) ==
    LET out == _make_request(wire)
        result == out.result
        pair_key == result[1][1]
    IN  IF out.raised
        THEN [sent |-> out.sent, error |-> TRUE, pair |-> pair, data |-> << >>, last |-> 0]
        ELSE IF result # << >>
        THEN [sent |-> out.sent, error |-> FALSE, pair |-> pair_key,
              data |-> ItemsGet(result, pair_key, << >>), last |-> ItemsGet(result, LastKey, 0)]
        ELSE [sent |-> out.sent, error |-> FALSE, pair |-> pair, data |-> << >>, last |-> 0]

get_ticker(pair, wire) ==
    LET out == _make_request(wire)
        result == out.result
    IN  IF out.raised THEN [sent |-> out.sent, error |-> TRUE, data |-> << >>]
        ELSE IF result # << >>
        THEN [sent |-> out.sent, error |-> FALSE, data |-> result[1][2]]
        ELSE [sent |-> out.sent, error |-> FALSE, data |-> << >>]

get_asset_pairs(wire) ==
    LET out == _make_request(wire)
    IN  [sent |-> out.sent, error |-> out.raised, result |-> out.result]

TIMEFRAME_MAP ==
    ("1m" :> 1) @@ ("5m" :> 5) @@ ("15m" :> 15) @@ ("30m" :> 30) @@ ("1h" :> 60)
    @@ ("4h" :> 240) @@ ("1d" :> 1440) @@ ("1w" :> 10080) @@ ("1M" :> 21600)

\* As get_timeframe_interval, with a default of one day.
get_timeframe_interval_DayDefault(timeframe) == DictGet(TIMEFRAME_MAP, timeframe, 1440)

get_timeframe_interval(timeframe) == DictGet(TIMEFRAME_MAP, timeframe, 60)

----------------------------------------------------------------------------
\* database_client.py: the statements of TradingBotDatabase, executed by the
\* remote store.  A store call whose transport or HTTP status fails is turned
\* by DatabaseClient into {"success": False}; ok = FALSE is that case.

\* DatabaseClient.execute_prepared_*: the response the caller sees.
execute_prepared(ok, executed, table) ==
    IF ok THEN executed
    ELSE [table |-> table, success |-> FALSE, data |-> {}]

\* What the store service may give to one request of DatabaseClient: no
\* response, an HTTP error status, or a JSON body.
DbReplies ==
    {[kind |-> "transport"], [kind |-> "status"],
     [kind |-> "json", body |-> [success |-> TRUE, data |-> << >>]],
     [kind |-> "json", body |-> [success |-> FALSE, error |-> "relation does not exist"]],
     [kind |-> "json", body |-> [valid |-> TRUE]],
     [kind |-> "json", body |-> [detail |-> "unexpected"]]}

\* As DatabaseClient_call, without the "except Exception" clause.
DatabaseClient_call_StatusOnly(method, reply) ==
    LET flag == IF method = "validate_sql" THEN "valid" ELSE "success"
    IN  IF reply.kind = "json" THEN [raised |-> FALSE, value |-> reply.body]
        ELSE IF reply.kind = "status"
        THEN [raised |-> FALSE, value |-> (flag :> FALSE) @@ [error |-> "HTTPStatusError"]]
        ELSE [raised |-> TRUE, value |-> << >>]

\* DatabaseClient.execute_prepared_sql / _select / _insert / _update /
\* _delete and validate_sql: post, raise_for_status, response.json(), with
\* except httpx.HTTPStatusError and except Exception returning a value.
DatabaseClient_call(method, reply) ==
    LET flag == IF method = "validate_sql" THEN "valid" ELSE "success"
    IN  IF reply.kind = "json" THEN [raised |-> FALSE, value |-> reply.body]
        ELSE IF reply.kind = "status"
        THEN [raised |-> FALSE, value |-> (flag :> FALSE) @@ [error |-> "HTTPStatusError"]]
        ELSE [raised |-> FALSE, value |-> (flag :> FALSE) @@ [error |-> "ConnectError"]]

\* datetime.isoformat(): the text of the instant, one text per instant.
isoformat(timestamp) == [iso |-> timestamp]

\* SELECT * FROM symbols WHERE symbol = $1, then data[0] if data else None.
\* The statement has no ORDER BY: with several matching rows any may be first.
get_symbol_by_name(table, symbol, ok) ==
    LET result == execute_prepared(ok, [table |-> table, success |-> TRUE,
                                        data |-> {row \in table : row.symbol = symbol}], table)
    IN  IF result.data = {} THEN {None} ELSE {Some(row) : row \in result.data}

\* The store's execution of an INSERT INTO symbols.  The statement names no
\* conflict target and the schema of symbols is not part of the sources: the
\* row is added; a store that refuses it answers as a failed call does.
SymbolInsertStmt(table, row) ==
    [table |-> table \cup {row}, success |-> TRUE, data |-> {row}]

\* INSERT INTO symbols (...) VALUES ($1..$9) RETURNING *
create_symbol(table, id, symbol_data, ok) ==
    LET row == [id |-> id,
                symbol |-> symbol_data.symbol,
                name |-> symbol_data.name,
                exchange |-> symbol_data.exchange,
                asset_type |-> symbol_data.asset_type,
                currency |-> DictGet(symbol_data, "currency", "USD"),
                sector |-> DictGet(symbol_data, "sector", None),
                industry |-> DictGet(symbol_data, "industry", None),
                market_cap |-> DictGet(symbol_data, "market_cap", None),
                is_active |-> DictGet(symbol_data, "is_active", TRUE)]
        result == execute_prepared(ok, SymbolInsertStmt(table, row), table)
    IN  [table |-> result.table, ret |-> result.success]

\* UPDATE symbols SET name = $1, sector = $2, industry = $3, market_cap = $4,
\* updated_at = CURRENT_TIMESTAMP WHERE symbol = $5 RETURNING *
\* with $1..$4 taken by update_data.get(...): a key that update_data lacks is
\* sent as NULL, a key that the statement does not name is not sent at all.
\* (updated_at is not kept in the rows of the model.)
\* As update_symbol, with a statement that sets nothing but the name.
update_symbol_NameOnly(table, symbol, update_data, ok) ==
    LET executed ==
            [table |-> {IF row.symbol = symbol
                        THEN [row EXCEPT !.name = DictGet(update_data, "name", None)]
                        ELSE row : row \in table},
             success |-> TRUE,
             data |-> {row \in table : row.symbol = symbol}]
        result == execute_prepared(ok, executed, table)
    IN  [table |-> result.table, ret |-> result.success]

update_symbol(table, symbol, update_data, ok) ==
    LET executed ==
            [table |-> {IF row.symbol = symbol
                        THEN [row EXCEPT !.name = DictGet(update_data, "name", None),
                                         !.sector = DictGet(update_data, "sector", None),
                                         !.industry = DictGet(update_data, "industry", None),
                                         !.market_cap = DictGet(update_data, "market_cap", None)]
                        ELSE row : row \in table},
             success |-> TRUE,
             data |-> {row \in table : row.symbol = symbol}]
        result == execute_prepared(ok, executed, table)
    IN  [table |-> result.table, ret |-> result.success]

\* DELETE FROM symbols WHERE symbol = $1 RETURNING *
delete_symbol(table, symbol, ok) ==
    LET result == execute_prepared(ok, [table |-> {row \in table : row.symbol # symbol},
                                        success |-> TRUE,
                                        data |-> {row \in table : row.symbol = symbol}], table)
    IN  [table |-> result.table, ret |-> result.success]

\* The conflict target of the market_data insert.
MarketDataKey(row) == <<row.symbol_id, row.t_stamp, row.time_frame, row.data_source>>

\* As MarketDataInsertStmt, with DO UPDATE in place of DO NOTHING.
MarketDataInsertStmt_Overwrite(table, row) ==
    [table |-> {old \in table : MarketDataKey(old) # MarketDataKey(row)} \cup {row},
     success |-> TRUE, data |-> {row}]

\* INSERT INTO market_data (...) VALUES ($1..$10)
\* ON CONFLICT (symbol_id, t_stamp, time_frame, data_source) DO NOTHING RETURNING *
\* A conflicting insert executes successfully and returns no row.
MarketDataInsertStmt(table, row) ==
    IF \E old \in table : MarketDataKey(old) = MarketDataKey(row)
    THEN [table |-> table, success |-> TRUE, data |-> {}]
    ELSE [table |-> table \cup {row}, success |-> TRUE, data |-> {row}]

insert_market_data(table, symbol_id, market_data_point, ok) ==
    LET row == [symbol_id |-> symbol_id,
                t_stamp |-> isoformat(market_data_point.timestamp),
                open |-> market_data_point.open,
                high |-> market_data_point.high,
                low |-> market_data_point.low,
                close |-> market_data_point.close,
                volume |-> DictGet(market_data_point, "volume", 0),
                adjusted_close |-> DictGet(market_data_point, "adjusted_close", None),
                time_frame |-> market_data_point.time_frame,
                data_source |-> market_data_point.data_source]
        result == execute_prepared(ok, MarketDataInsertStmt(table, row), table)
    IN  [table |-> result.table, ret |-> result.success]

\* The conflict target of the real_time_prices upsert.
PriceKey(row) == <<row.symbol_id, row.data_source>>

\* As PriceUpsertStmt, without the ON CONFLICT clause and its unique index.
PriceUpsertStmt_PlainInsert(table, row) ==
    [table |-> table \cup {row}, success |-> TRUE, data |-> {row}]

\* As PriceUpsertStmt, with a SET list that forgets bid and ask.
PriceUpsertStmt_PartialSet(table, row) ==
    LET kept == {old \in table : PriceKey(old) # PriceKey(row)}
        hit == {old \in table : PriceKey(old) = PriceKey(row)}
    IN  [table |-> kept \cup (IF hit = {} THEN {row}
                              ELSE {[row EXCEPT !.bid = old.bid, !.ask = old.ask] : old \in hit}),
         success |-> TRUE, data |-> {row}]

\* INSERT INTO real_time_prices (...) VALUES ($1..$9)
\* ON CONFLICT (symbol_id, data_source) DO UPDATE SET price = EXCLUDED.price, ...,
\* last_updated = CURRENT_TIMESTAMP RETURNING *
PriceUpsertStmt(table, row) ==
    LET kept == {old \in table : PriceKey(old) # PriceKey(row)}
    IN  [table |-> kept \cup {row}, success |-> TRUE, data |-> {row}]

update_real_time_price(table, symbol_id, price_data, now, ok) ==
    LET row == [symbol_id |-> symbol_id,
                price |-> price_data.price,
                bid |-> DictGet(price_data, "bid", None),
                ask |-> DictGet(price_data, "ask", None),
                volume_24h |-> DictGet(price_data, "volume_24h", None),
                change_24h |-> DictGet(price_data, "change_24h", None),
                change_percent_24h |-> DictGet(price_data, "change_percent_24h", None),
                market_cap |-> DictGet(price_data, "market_cap", None),
                data_source |-> price_data.data_source,
                last_updated |-> now]
        result == execute_prepared(ok, PriceUpsertStmt(table, row), table)
    IN  [table |-> result.table, ret |-> result.success]

----------------------------------------------------------------------------
\* The exchange (inputs of the model): the candles it holds per pair and
\* interval, and the tickers it may publish.  Any call may fail instead.

\* What the network may give to one request for a result: no response, an
\* HTTP error status, a body with errors (with or without a result), a body
\* with an empty or missing error list.
Replies(result) ==
    {[kind |-> "transport"], [kind |-> "status"],
     [kind |-> "json", body |-> [error |-> <<"EService:Unavailable">>]],
     [kind |-> "json", body |-> [error |-> <<"EGeneral:Internal error">>, result |-> result]],
     [kind |-> "json", body |-> [error |-> << >>, result |-> result]],
     [kind |-> "json", body |-> [result |-> result]]}

\* What the network gives to a first and to a second request of one call.
Wires(results) ==
    {<<first, second>> : first \in UNION {Replies(result) : result \in results},
                         second \in UNION {Replies(result) : result \in results}}

Row1 == <<1700000000, 100, 110, 95, 105, 102, 50, 20>>

Row2 == <<1700003600, 105, 120, 100, 115, 110, 70, 30>>

\* The candle of Row2 while it was still forming.
Row2Early == <<1700003600, 105, 112, 100, 108, 106, 40, 12>>

ShortRow == <<1700007200, 115, 116>>

\* A candle whose high lies below its open and its low.
BadRow == <<1700010800, 100, 90, 95, 105, 98, 10, 3>>

XBTUSD == <<"X","B","T","U","S","D">>

DOGEUSD == <<"D","O","G","E","U","S","D">>

OhlcBook(pair, interval) ==
    CASE pair = XBTUSD /\ interval = 60 -> {<<Row1, Row2Early>>, <<Row1, Row2>>}
      [] pair = XBTUSD /\ interval = 1440 -> {<<ShortRow, Row1>>}
      [] pair = DOGEUSD /\ interval = 60 -> {<<Row1>>, <<BadRow>>}
      [] OTHER -> {<< >>}

OhlcResults(pair, interval) ==
    {<< <<pair, d>>, <<LastKey, 1700003600>> >> : d \in OhlcBook(pair, interval)} \cup {<< >>}

\* The same results with the two keys of the JSON object in either order.
OhlcResultsAnyOrder(pair, interval) ==
    OhlcResults(pair, interval)
    \cup {<<result[2], result[1]>> : result \in OhlcResults(pair, interval) \ {<< >>}}

ExchangeOhlc(pair, interval) ==
    {[error |-> reply.error, data |-> reply.data] :
        reply \in {get_ohlc(pair, interval, wire) : wire \in Wires(OhlcResults(pair, interval))}}

Ticker1 == [a |-> <<101, 1, 1>>, b |-> <<99, 1, 1>>, c |-> <<100, 5>>,
            v |-> <<10, 500>>, h |-> <<105, 95>>, o |-> Str(90)]

Ticker2 == [a |-> <<121, 2, 2>>, b |-> <<119, 1, 1>>, c |-> <<120, 1>>,
            v |-> <<20, 700>>, h |-> <<125, 99>>, o |-> Num(100)]

Ticker3 == [c |-> <<110, 2>>]

\* A payload without the last-trade array "c".
Ticker4 == [a |-> <<111, 1, 1>>, b |-> <<109, 1, 1>>, o |-> Str(100)]

\* A ticker result carries one item, keyed by the exchange's name of the pair,
\* or none.
TickerResults == {<< <<"XXBTZUSD", d>> >> : d \in {Ticker1, Ticker2, Ticker3, Ticker4}} \cup {<< >>}

TickerWires == Wires(TickerResults)

\* The response to the first request carries no error and an empty result.
EmptyResult(wire) ==
    /\ wire[1].kind = "json"
    /\ DictGet(wire[1].body, "error", << >>) = << >>
    /\ DictGet(wire[1].body, "result", << >>) = << >>

PairInputs == { <<"b","t","c","/","u","s","d">>, DOGEUSD }

Timeframes == {"1h", "1d"}

\* The limit query parameter: 0 stands for "not given" (the route requires >= 1).
Limits == {0, 1}

\* list[-n:]
LastN(list, n) == SubSeq(list, IF Len(list) > n THEN Len(list) - n + 1 ELSE 1, Len(list))

----------------------------------------------------------------------------
\* main.py: fetch_kraken_ohlc and fetch_kraken_ticker, one step per call to the
\* exchange or to the store; a frame holds the handler's local variables and
\* is dropped, but for the response, when the handler returns.

IngestIds == 1..MaxIngest

NoResp == [status |-> 0, records_fetched |-> 0, records_inserted |-> 0]

IdleFrame ==
    [kind |-> "none", pc |-> "idle", db_symbol |-> << >>,
     parsed |-> << >>, symbol_id |-> 0, idx |-> 0,
     inserted_count |-> 0, resp |-> NoResp,
     \* history of the request: the rows it really added, what its create_symbol
     \* returned, the store clock of its applied upsert and what it upserted
     written |-> 0, answered |-> 0, create |-> "none",
     began_at |-> 0, applied_at |-> 0, sent |-> << >>,
     \* history: the exchange answered the ticker request with an empty result
     no_data |-> FALSE,
     \* history: what the exchange call of the request gave: "error" (it
     \* raised), "empty" (no rows, no ticker) or "data"
     exchange |-> "none"]

\* raise HTTPException(status_code = status) / return {"success": True, ...}
Finish(frame, status, fetched, inserted) ==
    [IdleFrame EXCEPT !.kind = frame.kind, !.pc = "done",
                      !.resp = [status |-> status, records_fetched |-> fetched,
                                records_inserted |-> inserted],
                      !.inserted_count = frame.inserted_count,
                      !.written = frame.written, !.answered = frame.answered,
                      !.create = frame.create, !.began_at = frame.began_at,
                      !.applied_at = frame.applied_at, !.sent = frame.sent,
                      !.no_data = frame.no_data, !.exchange = frame.exchange]

\* A store call is answered, or fails in transport.
StoreOutcomes == BOOLEAN

\* Requests are taken in the order of their ids.
MayStart(r) == ireq[r].pc = "idle" /\ \A q \in IngestIds : q < r => ireq[q].pc # "idle"

\* symbol_id = symbol_info["id"], then the write loop (empty for no records).
Resolved(frame, symbol_info) ==
    IF symbol_info = None THEN Finish(frame, 500, 0, 0)
    ELSE IF frame.kind = "ohlc" /\ frame.parsed = << >>
    THEN Finish(frame, 200, 0, 0)
    ELSE [frame EXCEPT !.symbol_id = The(symbol_info).id, !.pc = "write", !.idx = 1]

\* As OhlcFetch, without the "if not ohlc_data" check: an empty answer goes
\* on to the symbol resolution.
OhlcFetch_NoEmptyCheck(r) ==
    /\ MayStart(r)
    /\ \E pair \in PairInputs, timeframe \in Timeframes, limit \in Limits :
          LET normalized_pair == normalize_pair(pair)
              interval == get_timeframe_interval(timeframe)
          IN  \E reply \in ExchangeOhlc(normalized_pair, interval) :
                LET ohlc_data == IF limit # 0 THEN LastN(reply.data, limit) ELSE reply.data
                    frame == [IdleFrame EXCEPT
                                 !.kind = "ohlc",
                                 !.exchange = IF reply.error THEN "error"
                                              ELSE IF reply.data = << >> THEN "empty"
                                              ELSE "data",
                                 !.parsed = parse_ohlc_data(ohlc_data, timeframe, normalized_pair),
                                 !.db_symbol = DictGet(get_kraken_symbol_mapping,
                                                       normalized_pair, normalized_pair)]
                IN  ireq' = [ireq EXCEPT ![r] =
                                IF reply.error THEN Finish(frame, 500, 0, 0)
                                ELSE [frame EXCEPT !.pc = "lookup"]]
    /\ UNCHANGED <<symbols, market_data, real_time_prices, db_clock>>

OhlcFetch(r) ==
    /\ MayStart(r)
    /\ \E pair \in PairInputs, timeframe \in Timeframes, limit \in Limits :
          LET normalized_pair == normalize_pair(pair)
              interval == get_timeframe_interval(timeframe)
          IN  \E reply \in ExchangeOhlc(normalized_pair, interval) :
                LET ohlc_data == IF limit # 0 THEN LastN(reply.data, limit) ELSE reply.data
                    frame == [IdleFrame EXCEPT
                                 !.kind = "ohlc",
                                 !.exchange = IF reply.error THEN "error"
                                              ELSE IF reply.data = << >> THEN "empty"
                                              ELSE "data",
                                 !.parsed = parse_ohlc_data(ohlc_data, timeframe, normalized_pair),
                                 !.db_symbol = DictGet(get_kraken_symbol_mapping,
                                                       normalized_pair, normalized_pair)]
                IN  ireq' = [ireq EXCEPT ![r] =
                                IF reply.error THEN Finish(frame, 500, 0, 0)
                                ELSE IF reply.data = << >> THEN Finish(frame, 404, 0, 0)
                                ELSE [frame EXCEPT !.pc = "lookup"]]
    /\ UNCHANGED <<symbols, market_data, real_time_prices, db_clock>>

\* As TickerFetch, without the "if not ticker_data" check: an empty ticker is
\* parsed with its defaults and stored.
TickerFetch_NoEmptyCheck(r) ==
    /\ MayStart(r)
    /\ \E pair \in PairInputs, wire \in TickerWires :
          LET normalized_pair == normalize_pair(pair)
              reply == get_ticker(normalized_pair, wire)
              frame == [IdleFrame EXCEPT
                           !.kind = "ticker", !.began_at = db_clock,
                           !.no_data = EmptyResult(wire),
                           !.exchange = IF reply.error THEN "error"
                                        ELSE IF reply.data = << >> THEN "empty"
                                        ELSE "data",
                           !.parsed = <<parse_ticker_data(reply.data, normalized_pair)>>,
                           !.db_symbol = DictGet(get_kraken_symbol_mapping,
                                                 normalized_pair, normalized_pair)]
          IN  ireq' = [ireq EXCEPT ![r] =
                          IF reply.error THEN Finish(frame, 500, 0, 0)
                          ELSE [frame EXCEPT !.pc = "lookup"]]
    /\ UNCHANGED <<symbols, market_data, real_time_prices, db_clock>>

TickerFetch(r) ==
    /\ MayStart(r)
    /\ \E pair \in PairInputs, wire \in TickerWires :
          LET normalized_pair == normalize_pair(pair)
              reply == get_ticker(normalized_pair, wire)
              frame == [IdleFrame EXCEPT
                           !.kind = "ticker", !.began_at = db_clock,
                           !.no_data = EmptyResult(wire),
                           !.exchange = IF reply.error THEN "error"
                                        ELSE IF reply.data = << >> THEN "empty"
                                        ELSE "data",
                           !.parsed = IF reply.data = << >> THEN << >>
                                      ELSE <<parse_ticker_data(reply.data, normalized_pair)>>,
                           !.db_symbol = DictGet(get_kraken_symbol_mapping,
                                                 normalized_pair, normalized_pair)]
          IN  ireq' = [ireq EXCEPT ![r] =
                          IF reply.error THEN Finish(frame, 500, 0, 0)
                          ELSE IF reply.data = << >> THEN Finish(frame, 404, 0, 0)
                          ELSE [frame EXCEPT !.pc = "lookup"]]
    /\ UNCHANGED <<symbols, market_data, real_time_prices, db_clock>>

\* symbol_info = trading_db.get_symbol_by_name(db_symbol)
SymbolLookup(r) ==
    /\ ireq[r].pc = "lookup"
    /\ \E ok \in StoreOutcomes :
          \E symbol_info \in get_symbol_by_name(symbols, ireq[r].db_symbol, ok) :
             ireq' = [ireq EXCEPT ![r] =
                         IF symbol_info = None THEN [@ EXCEPT !.pc = "create"]
                         ELSE Resolved(@, symbol_info)]
    /\ UNCHANGED <<symbols, market_data, real_time_prices, db_clock>>

\* trading_db.create_symbol(symbol_data): the returned flag is not looked at.
\* The schema of symbols is not part of the sources: where a row of that name
\* exists the store may add a second one or reject the insert.
SymbolCreate(r) ==
    /\ ireq[r].pc = "create"
    /\ \E ok \in StoreOutcomes :
          LET symbol_data == [symbol |-> ireq[r].db_symbol, name |-> ireq[r].db_symbol,
                              exchange |-> "Kraken", asset_type |-> "crypto",
                              currency |-> "USD", is_active |-> TRUE]
              done == create_symbol(symbols, Cardinality(symbols) + 1, symbol_data, ok)
          IN  /\ symbols' = done.table
              /\ ireq' = [ireq EXCEPT ![r] =
                             [@ EXCEPT !.pc = "relookup",
                                       !.create = IF done.ret THEN "ok" ELSE "failed"]]
    /\ UNCHANGED <<market_data, real_time_prices, db_clock>>

\* symbol_info = trading_db.get_symbol_by_name(db_symbol) after the create;
\* symbol_info["id"] on None raises, which the handler reports as a 500.
SymbolRelookup(r) ==
    /\ ireq[r].pc = "relookup"
    /\ \E ok \in StoreOutcomes :
          \E symbol_info \in get_symbol_by_name(symbols, ireq[r].db_symbol, ok) :
             ireq' = [ireq EXCEPT ![r] = Resolved(@, symbol_info)]
    /\ UNCHANGED <<symbols, market_data, real_time_prices, db_clock>>

\* As OhlcInsert, with a loop that gives up at the first record whose write
\* fails.
OhlcInsert_AbortOnFailure(r) ==
    /\ ireq[r].pc = "write" /\ ireq[r].kind = "ohlc"
    /\ \E ok \in StoreOutcomes :
          LET frame == ireq[r]
              done == insert_market_data(market_data, frame.symbol_id,
                                         frame.parsed[frame.idx], ok)
              inserted_count == frame.inserted_count + (IF done.ret THEN 1 ELSE 0)
              after == [frame EXCEPT
                           !.inserted_count = inserted_count,
                           !.idx = frame.idx + 1,
                           !.written = @ + (IF done.table # market_data THEN 1 ELSE 0),
                           !.answered = @ + (IF ok THEN 1 ELSE 0)]
          IN  /\ market_data' = done.table
              /\ ireq' = [ireq EXCEPT ![r] =
                             IF ~done.ret THEN Finish(after, 500, 0, 0)
                             ELSE IF frame.idx = Len(frame.parsed)
                             THEN Finish(after, 200, Len(frame.parsed), inserted_count)
                             ELSE after]
    /\ UNCHANGED <<symbols, real_time_prices, db_clock>>

\* One pass of "for data_point in parsed_data", and the return after the last.
OhlcInsert(r) ==
    /\ ireq[r].pc = "write" /\ ireq[r].kind = "ohlc"
    /\ \E ok \in StoreOutcomes :
          LET frame == ireq[r]
              done == insert_market_data(market_data, frame.symbol_id,
                                         frame.parsed[frame.idx], ok)
              inserted_count == frame.inserted_count + (IF done.ret THEN 1 ELSE 0)
              after == [frame EXCEPT
                           !.inserted_count = inserted_count,
                           !.idx = frame.idx + 1,
                           !.written = @ + (IF done.table # market_data THEN 1 ELSE 0),
                           !.answered = @ + (IF ok THEN 1 ELSE 0)]
          IN  /\ market_data' = done.table
              /\ ireq' = [ireq EXCEPT ![r] =
                             IF frame.idx = Len(frame.parsed)
                             THEN Finish(after, 200, Len(frame.parsed), inserted_count)
                             ELSE after]
    /\ UNCHANGED <<symbols, real_time_prices, db_clock>>

\* success = trading_db.update_real_time_price(symbol_id, parsed_data)
TickerUpsert(r) ==
    /\ ireq[r].pc = "write" /\ ireq[r].kind = "ticker"
    /\ \E ok \in StoreOutcomes :
          LET frame == ireq[r]
              done == update_real_time_price(real_time_prices, frame.symbol_id,
                                             frame.parsed[1], db_clock + 1, ok)
          IN  /\ real_time_prices' = done.table
              /\ db_clock' = IF ok THEN db_clock + 1 ELSE db_clock
              /\ ireq' = [ireq EXCEPT ![r] =
                             IF done.ret
                             THEN Finish([frame EXCEPT
                                             !.applied_at = db_clock + 1,
                                             !.sent = <<frame.symbol_id, frame.parsed[1]>>],
                                         200, 1, 1)
                             ELSE Finish(frame, 500, 0, 0)]
    /\ UNCHANGED <<symbols, market_data>>

fetch_kraken_ohlc(r) ==
    \/ OhlcFetch(r)
    \/ ireq[r].kind = "ohlc" /\ (SymbolLookup(r) \/ SymbolCreate(r) \/ SymbolRelookup(r))
    \/ OhlcInsert(r)

fetch_kraken_ticker(r) ==
    \/ TickerFetch(r)
    \/ ireq[r].kind = "ticker" /\ (SymbolLookup(r) \/ SymbolCreate(r) \/ SymbolRelookup(r))
    \/ TickerUpsert(r)

----------------------------------------------------------------------------
\* redis_client.py: the Redis server, as far as the cache layer uses it.  An
\* entry is None (no such key) or Some([val, ttl]) with ttl > 0 seconds left;
\* a key whose time is up is removed by the server.

CACHE_PREFIX == <<"trading_bot">>

KRAKEN_PAIRS_KEY == CACHE_PREFIX \o <<"kraken", "pairs">>

KRAKEN_PAIRS_ACTIVE_KEY == CACHE_PREFIX \o <<"kraken", "pairs", "active">>

KRAKEN_PAIRS_TOTAL_KEY == CACHE_PREFIX \o <<"kraken", "pairs", "total">>

KRAKEN_PAIRS_TIMESTAMP_KEY == CACHE_PREFIX \o <<"kraken", "pairs", "timestamp">>

RedisKeySpace ==
    {KRAKEN_PAIRS_KEY, KRAKEN_PAIRS_ACTIVE_KEY, KRAKEN_PAIRS_TOTAL_KEY, KRAKEN_PAIRS_TIMESTAMP_KEY}

DEFAULT_EXPIRATION == 3600

Live(entry) == entry # None /\ The(entry).ttl > 0

RedisGET(store, key) ==
    IF Live(store[key]) THEN Some(The(store[key]).val) ELSE None

\* As RedisSETEX, but SET ... NX: a live key keeps its value.
RedisSETEX_IfAbsent(store, key, seconds, value) ==
    IF Live(store[key]) THEN store
    ELSE [store EXCEPT ![key] = Some([val |-> value, ttl |-> seconds])]

RedisSETEX(store, key, seconds, value) ==
    [store EXCEPT ![key] = Some([val |-> value, ttl |-> seconds])]

\* A glob "prefix*" over keys written as their colon-separated segments.
RedisKEYS(store, prefix) ==
    {k \in DOMAIN store :
        Live(store[k]) /\ Len(prefix) <= Len(k) /\ SubSeq(k, 1, Len(prefix)) = prefix}

RedisDEL(store, keys) == [k \in DOMAIN store |-> IF k \in keys THEN None ELSE store[k]]

\* The passing of seconds on the server.
RedisElapse(store, seconds) ==
    [k \in DOMAIN store |->
        IF Live(store[k]) /\ The(store[k]).ttl > seconds
        THEN Some([The(store[k]) EXCEPT !.ttl = @ - seconds])
        ELSE None]

\* json.dumps / json.loads: the text of a value, and the value of a text.
json_dumps(value) == [json |-> value]

json_loads(text) == text.json

\* What a cache method hands to its caller when an exception escapes it.
Raise == <<"raise", "ConnectionError">>

\* RedisCache: client is "self.client is not None", up is whether the server
\* answers at the moment of the call.
is_connected(client, up) == client /\ up

RedisCache_get(client, up, store, key) ==
    IF ~is_connected(client, up) THEN None
    ELSE LET value == RedisGET(store, key)
         IN  IF value # None THEN Some(json_loads(The(value))) ELSE None

RedisCache_set(client, up, store, key, value, expiration) ==
    IF ~is_connected(client, up) THEN [store |-> store, ret |-> FALSE]
    ELSE [store |-> RedisSETEX(store, key,
                               IF expiration # 0 THEN expiration ELSE DEFAULT_EXPIRATION,
                               json_dumps(value)),
          ret |-> TRUE]

RedisCache_clear_pattern(client, up, store, prefix) ==
    IF ~is_connected(client, up) THEN [store |-> store, ret |-> 0]
    ELSE LET keys == RedisKEYS(store, prefix)
         IN  [store |-> IF keys # {} THEN RedisDEL(store, keys) ELSE store,
              ret |-> Cardinality(keys)]

\* As RedisCache_get_kraken_pairs, on a cache that never has the snapshot.
RedisCache_get_kraken_pairs_AlwaysMiss(client, up, store) == None

\* As RedisCache_get_kraken_pairs, without the is_connected guard and the
\* try/except: an unreachable server raises into the caller.
RedisCache_get_kraken_pairs_Unguarded(client, up, store) ==
    IF ~is_connected(client, up) THEN Raise
    ELSE RedisCache_get(client, up, store, KRAKEN_PAIRS_KEY)

RedisCache_get_kraken_pairs(client, up, store) ==
    IF ~is_connected(client, up) THEN None
    ELSE LET pairs_data == RedisCache_get(client, up, store, KRAKEN_PAIRS_KEY)
         IN  IF pairs_data # None /\ DOMAIN The(pairs_data) # {} THEN pairs_data ELSE None

\* The metadata writes of set_kraken_pairs, made on the raw client: they raise
\* when the server is gone.
set_kraken_pairs_metadata(up, store, pairs, expiration) ==
    IF ~up THEN Raise
    ELSE LET s1 == IF "active_pairs" \in DOMAIN pairs
                   THEN RedisSETEX(store, KRAKEN_PAIRS_ACTIVE_KEY, expiration, pairs.active_pairs)
                   ELSE store
             s2 == IF "total_pairs" \in DOMAIN pairs
                   THEN RedisSETEX(s1, KRAKEN_PAIRS_TOTAL_KEY, expiration, pairs.total_pairs)
                   ELSE s1
         IN  Some(RedisSETEX(s2, KRAKEN_PAIRS_TIMESTAMP_KEY, expiration, "utcnow"))

\* As RedisCache_set_kraken_pairs, adding the entries to the catalog that is
\* cached instead of replacing it.
RedisCache_set_kraken_pairs_Merge(client, up, still_up, store, pairs, expiration) ==
    LET old == store[KRAKEN_PAIRS_KEY]
        merged == IF Live(old)
                  THEN [pairs EXCEPT !.pairs = @ @@ json_loads(The(old).val).pairs]
                  ELSE pairs
    IN  IF ~is_connected(client, up) THEN [store |-> store, ret |-> FALSE]
        ELSE LET main == RedisCache_set(client, up, store, KRAKEN_PAIRS_KEY, merged, expiration)
                 meta == set_kraken_pairs_metadata(still_up, main.store, merged, expiration)
             IN  IF ~main.ret THEN main
                 ELSE IF meta = Raise THEN [store |-> main.store, ret |-> FALSE]
                 ELSE [store |-> The(meta), ret |-> main.ret]

\* up: the server answers when the method is entered; still_up: it still does
\* after the pairs key is written.
RedisCache_set_kraken_pairs(client, up, still_up, store, pairs, expiration) ==
    IF ~is_connected(client, up) THEN [store |-> store, ret |-> FALSE]
    ELSE LET main == RedisCache_set(client, up, store, KRAKEN_PAIRS_KEY, pairs, expiration)
             meta == set_kraken_pairs_metadata(still_up, main.store, pairs, expiration)
         IN  IF ~main.ret THEN main
             ELSE IF meta = Raise THEN [store |-> main.store, ret |-> FALSE]
             ELSE [store |-> The(meta), ret |-> main.ret]

\* As RedisCache_clear_kraken_pairs_cache, deleting nothing.
RedisCache_clear_kraken_pairs_cache_Skip(client, up, store) ==
    [store |-> store, ret |-> is_connected(client, up)]

RedisCache_clear_kraken_pairs_cache(client, up, store) ==
    IF ~is_connected(client, up) THEN [store |-> store, ret |-> FALSE]
    ELSE [store |-> RedisCache_clear_pattern(client, up, store,
                                             CACHE_PREFIX \o <<"kraken", "pairs">>).store,
          ret |-> TRUE]

----------------------------------------------------------------------------
\* main.py, get_kraken_pairs: the answer computed from a catalog.  A catalog is
\* a function from pair names to their info records.

\* The characters of the model's texts, in code-point order.
CodePoints ==
    <<"/","0","1","2","3","4","5","6","7","8","9">> \o UpperLetters \o LowerLetters

Ord(c) == CHOOSE k \in DOMAIN CodePoints : CodePoints[k] = c

\* a < b on str
RECURSIVE StrLess(_, _)
StrLess(a, b) ==
    IF a = << >> THEN b # << >>
    ELSE IF b = << >> THEN FALSE
    ELSE IF a[1] = b[1] THEN StrLess(Tail(a), Tail(b))
    ELSE Ord(a[1]) < Ord(b[1])

\* sorted(keys)
RECURSIVE sorted(_)
sorted(keys) ==
    IF keys = {} THEN << >>
    ELSE LET first == CHOOSE x \in keys : \A y \in keys \ {x} : StrLess(x, y)
         IN  <<first>> \o sorted(keys \ {first})

\* str.lower(), character by character.
StrLower(s) ==
    [i \in DOMAIN s |->
        IF \E k \in DOMAIN UpperLetters : UpperLetters[k] = s[i]
        THEN LowerLetters[CHOOSE k \in DOMAIN UpperLetters : UpperLetters[k] = s[i]]
        ELSE s[i]]

\* term in text
StrIn(term, text) ==
    \E i \in 0..(Len(text) - Len(term)) : SubSeq(text, i + 1, i + Len(term)) = term

\* As Slice, taking offset for a page number: list[offset * limit:][:limit].
Slice_PageNumber(list, offset, limit) ==
    SubSeq(list, offset * limit + 1,
           IF offset * limit + limit < Len(list) THEN offset * limit + limit ELSE Len(list))

\* list[offset:offset + limit]
Slice(list, offset, limit) ==
    SubSeq(list, offset + 1, IF offset + limit < Len(list) THEN offset + limit ELSE Len(list))

Restrict(d, keys) == [k \in keys |-> d[k]]

\* As StatusFilter, with every value but "all" read as "online".
StatusFilter_OnlineOnly(pairs, status) ==
    IF status # None /\ The(status) # "" /\ The(status) # "all"
    THEN Restrict(pairs, {name \in DOMAIN pairs :
                             DictGet(pairs[name], "status", None) = Some("online")})
    ELSE pairs

\* "if status and status != 'all'": None and the empty text are falsy.
StatusFilter(pairs, status) ==
    IF status # None /\ The(status) # "" /\ The(status) # "all"
    THEN Restrict(pairs, {name \in DOMAIN pairs :
                             DictGet(pairs[name], "status", None) = status})
    ELSE pairs

\* As SearchTerms, without the currency aliases.
SearchTerms_NoAlias(search) == {StrLower(search)}

SearchTerms(search) ==
    LET search_lower == StrLower(search)
    IN  {search_lower}
        \cup (IF StrIn(<<"d","o","g","e">>, search_lower) THEN {<<"x","d","g">>} ELSE {})
        \cup (IF StrIn(<<"b","t","c">>, search_lower) /\ ~StrIn(<<"x","b","t">>, search_lower)
              THEN {<<"x","b","t">>} ELSE {})

SearchFilter(filtered_pairs, search) ==
    IF search # None /\ The(search) # << >>
    THEN Restrict(filtered_pairs,
                  {name \in DOMAIN filtered_pairs :
                      \E term \in SearchTerms(The(search)) :
                          \/ StrIn(term, StrLower(name))
                          \/ StrIn(term, StrLower(DictGet(filtered_pairs[name], "wsname", << >>)))
                          \/ StrIn(term, StrLower(DictGet(filtered_pairs[name], "altname", << >>)))
                          \/ StrIn(term, StrLower(DictGet(filtered_pairs[name], "base", << >>)))
                          \/ StrIn(term, StrLower(DictGet(filtered_pairs[name], "quote", << >>)))})
    ELSE filtered_pairs

ActivePairs(pairs) ==
    {name \in DOMAIN pairs : DictGet(pairs[name], "status", None) = Some("online")}

\* As PairDetail, with "name" read from wsname alone.
PairDetail_NoFallback(pair_name, pair_info) ==
    [pair |-> pair_name,
     name |-> DictGet(pair_info, "wsname", << >>),
     altname |-> DictGet(pair_info, "altname", pair_name),
     base |-> DictGet(pair_info, "base", << >>),
     quote |-> DictGet(pair_info, "quote", << >>),
     status |-> DictGet(pair_info, "status", Some("unknown"))]

\* "name": wsname or altname or pair_name; a missing or empty text is falsy.
PairDetail(pair_name, pair_info) ==
    [pair |-> pair_name,
     name |-> IF DictGet(pair_info, "wsname", << >>) # << >> THEN pair_info.wsname
              ELSE IF DictGet(pair_info, "altname", << >>) # << >> THEN pair_info.altname
              ELSE pair_name,
     altname |-> DictGet(pair_info, "altname", pair_name),
     base |-> DictGet(pair_info, "base", << >>),
     quote |-> DictGet(pair_info, "quote", << >>),
     status |-> DictGet(pair_info, "status", Some("unknown"))]

\* The body of the 200 answer of GET /kraken/pairs.
PairsAnswer(pairs, limit, offset, status, search, from_cache) ==
    LET filtered_pairs == SearchFilter(StatusFilter(pairs, status), search)
        sorted_pairs == sorted(DOMAIN filtered_pairs)
        paginated_pairs == Slice(sorted_pairs, offset, limit)
    IN  [success |-> TRUE,
         total_pairs |-> Cardinality(DOMAIN pairs),
         active_pairs |-> Cardinality(ActivePairs(pairs)),
         filtered_pairs |-> Cardinality(DOMAIN filtered_pairs),
         pairs |-> paginated_pairs,
         pairs_detail |-> [i \in DOMAIN paginated_pairs |->
                              PairDetail(paginated_pairs[i], filtered_pairs[paginated_pairs[i]])],
         from_cache |-> from_cache,
         search |-> search,
         pagination |-> [limit |-> limit,
                         offset |-> offset,
                         returned |-> Len(paginated_pairs),
                         has_more |-> (offset + limit) < Cardinality(DOMAIN filtered_pairs),
                         total |-> Cardinality(DOMAIN filtered_pairs)]]

\* The body of the 200 answer of POST /kraken/pairs/refresh.
RefreshAnswer(pairs, cached) ==
    [success |-> TRUE,
     total_pairs |-> Cardinality(DOMAIN pairs),
     active_pairs |-> Cardinality(ActivePairs(pairs)),
     cached |-> cached]

----------------------------------------------------------------------------
\* The exchange's pair catalog (input of the model): the listing it serves now
\* and the one it serves after a change of listings.

PairInfo(altname, wsname, base, quote, status) ==
    [altname |-> altname, wsname |-> wsname, base |-> base, quote |-> quote,
     status |-> Some(status)]

ETHUSD == <<"E","T","H","U","S","D">>

XDGUSD == <<"X","D","G","U","S","D">>

ADAUSD == <<"A","D","A","U","S","D">>

XBTUSDT == <<"X","B","T","U","S","D","T">>

CatalogOld ==
    (XBTUSD :> PairInfo(XBTUSD, <<"X","B","T","/","U","S","D">>,
                        <<"X","X","B","T">>, <<"Z","U","S","D">>, "online"))
    @@ (ETHUSD :> PairInfo(ETHUSD, <<"E","T","H","/","U","S","D">>,
                           <<"X","E","T","H">>, <<"Z","U","S","D">>, "online"))
    @@ (XDGUSD :> PairInfo(XDGUSD, <<"X","D","G","/","U","S","D">>,
                           <<"X","X","D","G">>, <<"Z","U","S","D">>, "online"))

\* ETHUSD went cancel_only and XDGUSD was delisted.
CatalogNew ==
    (XBTUSD :> PairInfo(XBTUSD, <<"X","B","T","/","U","S","D">>,
                        <<"X","X","B","T">>, <<"Z","U","S","D">>, "online"))
    @@ (ETHUSD :> PairInfo(ETHUSD, <<"E","T","H","/","U","S","D">>,
                           <<"X","E","T","H">>, <<"Z","U","S","D">>, "cancel_only"))

\* "result": null in the body of an answer: data.get("result", {}) is then None.
JsonNull == (<<"n","u","l","l">> :> "null")

\* KrakenClient.get_asset_pairs(): the listing, or an exception.
ExchangeAssetPairs(listing) ==
    {[error |-> reply.error, result |-> reply.result] :
        reply \in {get_asset_pairs(wire) : wire \in Wires({listing})}}

\* limit, offset, status and search of a catalog query.
QueryParams ==
    {[limit |-> 1, offset |-> 1, status |-> Some("online"), search |-> Some(<<"U","s","d">>)]}

PAIRS_EXPIRATION == 3600

\* The seconds that may pass between two steps.
TickSteps == {PAIRS_EXPIRATION - 1, PAIRS_EXPIRATION}

----------------------------------------------------------------------------
\* main.py: get_kraken_pairs and refresh_kraken_pairs, one step per call to
\* the cache or to the exchange.

CatalogIds == 1..MaxCatalog

\* cache: what get_cache() returned is not None; calls: the calls made so far;
\* cached: the "cached" flag of the refresh answer; status: the HTTP status.
IdleCatalogFrame ==
    [kind |-> "none", pc |-> "idle", refresh |-> FALSE, params |-> None,
     cache |-> FALSE, pairs |-> None, from_cache |-> FALSE, cached |-> FALSE,
     calls |-> << >>, status |-> 0,
     \* history: the server answered when the request began, and get_cache()
     \* gave it the handle
     up |-> FALSE, handle |-> FALSE]

CatalogMayStart(r) ==
    creq[r].pc = "idle" /\ \A q \in CatalogIds : q < r => creq[q].pc # "idle"

\* return {...} / raise HTTPException(status_code=500): the handler's locals
\* that make up the answer stay in the frame.
CatalogFinish(frame, status) ==
    [frame EXCEPT !.pc = "done", !.cache = FALSE, !.status = status]

PairsFinish(frame, pairs, from_cache) ==
    CatalogFinish([frame EXCEPT !.pairs = Some(pairs), !.from_cache = from_cache], 200)

\* The body of the 200 answer a returned request sent.
CatalogAnswer(frame) ==
    IF frame.kind = "query"
    THEN PairsAnswer(The(frame.pairs), The(frame.params).limit, The(frame.params).offset,
                     The(frame.params).status, The(frame.params).search, frame.from_cache)
    ELSE RefreshAnswer(The(frame.pairs), frame.cached)

\* get_cache(): the shared instance is made on first use, its constructor
\* keeps a client only if the ping succeeds; then is_connected().
get_cache(instance, up) ==
    LET made == IF instance = "unset" THEN (IF up THEN "client" ELSE "noclient") ELSE instance
    IN  [instance |-> made, cache |-> is_connected(made = "client", up)]

\* GET /kraken/pairs up to "cache = get_cache()".
PairsBegin(r) ==
    /\ CatalogMayStart(r)
    /\ \E refresh \in BOOLEAN, params \in QueryParams :
          LET got == get_cache(cache_instance, redis_up)
          IN  /\ cache_instance' = got.instance
              /\ creq' = [creq EXCEPT ![r] =
                             [IdleCatalogFrame EXCEPT
                                 !.kind = "query", !.refresh = refresh,
                                 !.params = Some(params), !.cache = got.cache,
                                 !.up = redis_up, !.handle = got.cache,
                                 !.pc = IF ~refresh /\ got.cache THEN "read" ELSE "fetch"]]
    /\ UNCHANGED <<redis, redis_up, exchange_pairs, last_writer>>

\* cached_data = cache.get_kraken_pairs()
PairsRead(r) ==
    /\ creq[r].pc = "read"
    /\ LET frame == [creq[r] EXCEPT !.calls = Append(@, "read")]
           cached_data == RedisCache_get_kraken_pairs(cache_instance = "client", redis_up, redis)
       IN  creq' = [creq EXCEPT ![r] =
                       IF cached_data = Raise THEN CatalogFinish(frame, 500)
                       ELSE IF cached_data = None THEN [frame EXCEPT !.pc = "fetch"]
                       ELSE IF DictGet(The(cached_data), "pairs", JsonNull) # JsonNull
                       THEN PairsFinish(frame, The(cached_data).pairs, TRUE)
                       ELSE [frame EXCEPT !.pc = "fetch", !.from_cache = TRUE]]
    /\ UNCHANGED <<redis, redis_up, cache_instance, exchange_pairs, last_writer>>

\* pairs = kraken.get_asset_pairs(), in either handler; without pairs the
\* rest of the handler raises on pairs.items() or len(pairs).
CatalogFetch(r) ==
    /\ creq[r].pc = "fetch"
    /\ \E reply \in ExchangeAssetPairs(exchange_pairs) :
          LET frame == [creq[r] EXCEPT !.calls = Append(@, "fetch")]
              fetched == [frame EXCEPT !.pairs = IF reply.result = JsonNull THEN None
                                                 ELSE Some(reply.result)]
          IN  creq' = [creq EXCEPT ![r] =
                          IF reply.error THEN CatalogFinish(frame, 500)
                          ELSE IF frame.cache THEN [fetched EXCEPT !.pc = "set"]
                          ELSE IF fetched.pairs = None THEN CatalogFinish(frame, 500)
                          ELSE IF frame.kind = "query"
                          THEN PairsFinish(frame, reply.result, frame.from_cache)
                          ELSE CatalogFinish(fetched, 200)]
    /\ UNCHANGED <<redis, redis_up, cache_instance, exchange_pairs, last_writer>>

\* cache.set_kraken_pairs(cache_data, expiration=3600), and the return of
\* get_kraken_pairs; the server may go away between the method's writes.
CatalogSet(r) ==
    /\ creq[r].pc = "set"
    /\ \E still_up \in {redis_up, FALSE} :
          LET cache_data == [pairs |-> IF creq[r].pairs = None THEN JsonNull
                                       ELSE The(creq[r].pairs),
                             timestamp |-> r]
              done == RedisCache_set_kraken_pairs(cache_instance = "client", redis_up, still_up,
                                                  redis, cache_data, PAIRS_EXPIRATION)
              frame == [creq[r] EXCEPT !.calls = Append(@, "set")]
          IN  /\ redis' = done.store
              /\ redis_up' = still_up
              /\ last_writer' = IF is_connected(cache_instance = "client", redis_up)
                                 THEN r ELSE last_writer
              /\ creq' = [creq EXCEPT ![r] =
                             IF frame.pairs = None THEN CatalogFinish(frame, 500)
                             ELSE IF frame.kind = "query"
                             THEN PairsFinish(frame, The(frame.pairs), frame.from_cache)
                             ELSE [frame EXCEPT !.pc = "report"]]
    /\ UNCHANGED <<cache_instance, exchange_pairs>>

get_kraken_pairs(r) ==
    \/ PairsBegin(r)
    \/ PairsRead(r)
    \/ creq[r].kind = "query" /\ (CatalogFetch(r) \/ CatalogSet(r))

\* POST /kraken/pairs/refresh up to "cache = get_cache()".
RefreshBegin(r) ==
    /\ CatalogMayStart(r)
    /\ LET got == get_cache(cache_instance, redis_up)
       IN  /\ cache_instance' = got.instance
           /\ creq' = [creq EXCEPT ![r] =
                          [IdleCatalogFrame EXCEPT
                              !.kind = "refresh", !.refresh = TRUE, !.cache = got.cache,
                              !.up = redis_up, !.handle = got.cache,
                              !.pc = IF got.cache THEN "clear" ELSE "fetch"]]
    /\ UNCHANGED <<redis, redis_up, exchange_pairs, last_writer>>

\* cache.clear_kraken_pairs_cache()
RefreshClear(r) ==
    /\ creq[r].pc = "clear"
    /\ LET done == RedisCache_clear_kraken_pairs_cache(cache_instance = "client", redis_up, redis)
       IN  /\ redis' = done.store
           /\ creq' = [creq EXCEPT ![r] = [@ EXCEPT !.pc = "fetch", !.calls = Append(@, "clear")]]
    /\ UNCHANGED <<redis_up, cache_instance, exchange_pairs, last_writer>>

\* "cached": cache is not None and cache.is_connected()
RefreshReport(r) ==
    /\ creq[r].pc = "report"
    /\ creq' = [creq EXCEPT ![r] =
                   CatalogFinish([creq[r] EXCEPT
                                     !.cached = creq[r].cache
                                                /\ is_connected(cache_instance = "client", redis_up)],
                                 200)]
    /\ UNCHANGED <<redis, redis_up, cache_instance, exchange_pairs, last_writer>>

refresh_kraken_pairs(r) ==
    \/ RefreshBegin(r)
    \/ RefreshClear(r)
    \/ creq[r].kind = "refresh" /\ (CatalogFetch(r) \/ CatalogSet(r))
    \/ RefreshReport(r)

\* The environment of the catalog handlers: seconds pass, the cache server
\* goes away and comes back, the exchange changes its listings.
Tick ==
    /\ \E k \in RedisKeySpace : Live(redis[k])
    /\ \E seconds \in TickSteps : redis' = RedisElapse(redis, seconds)
    /\ UNCHANGED <<redis_up, cache_instance, exchange_pairs, creq, last_writer>>

RedisOutage ==
    /\ redis_up' = ~redis_up
    /\ UNCHANGED <<redis, cache_instance, exchange_pairs, creq, last_writer>>

ExchangeRelist ==
    /\ exchange_pairs = CatalogOld
    /\ exchange_pairs' = CatalogNew
    /\ UNCHANGED <<redis, redis_up, cache_instance, creq, last_writer>>

\* The exchange answers AssetPairs with a null result for a while.
ExchangeNull ==
    /\ exchange_pairs' = IF exchange_pairs = JsonNull THEN CatalogNew ELSE JsonNull
    /\ UNCHANGED <<redis, redis_up, cache_instance, creq, last_writer>>

InitCatalog ==
    /\ redis = [k \in RedisKeySpace |-> None]
    /\ redis_up = TRUE
    /\ cache_instance = "unset"
    /\ exchange_pairs = CatalogOld
    /\ creq = [r \in CatalogIds |-> IdleCatalogFrame]
    /\ last_writer = 0

----------------------------------------------------------------------------
\* main.py: sync_kraken_symbols, one step per call to the exchange or to the
\* store.  todo holds the items <<kraken_pair, db_symbol>> of the mapping that
\* the loop has still to act on.

SyncIds == 1..MaxSync

IdleSyncFrame ==
    [pc |-> "idle", pairs |-> None, todo |-> << >>, symbol_info |-> None,
     created_count |-> 0, updated_count |-> 0, status |-> 0,
     \* history: what the last create_symbol or update_symbol returned, whether
     \* a store call of the request failed, the catalog it fetched, and whether
     \* it began after clean syncs of that same catalog, all returned
     last_ret |-> FALSE, failed |-> FALSE, listing |-> None, follows |-> FALSE]

SyncMayStart(r) == sreq[r].pc = "idle" /\ \A q \in SyncIds : q < r => sreq[q].pc # "idle"

\* The next pass of "for kraken_pair, db_symbol in symbol_mapping.items()" that
\* makes a store call, or the return after the last pass.
SyncAdvance(frame, todo) ==
    IF todo = << >>
    THEN [frame EXCEPT !.pc = "done", !.status = 200, !.pairs = None, !.todo = << >>,
                       !.symbol_info = None]
    ELSE [frame EXCEPT !.pc = "lookup", !.todo = todo, !.symbol_info = None]

\* As SyncTodo, mirroring every listing of the catalog, mapped or not.
SyncTodo_Mirror(pairs) ==
    LET names == sorted(DOMAIN pairs)
    IN  [i \in DOMAIN names |->
            <<names[i], DictGet(get_kraken_symbol_mapping, names[i], names[i])>>]

\* "for kraken_pair, db_symbol in symbol_mapping.items(): if kraken_pair in
\* pairs": the items the loop body runs for, in the order of the mapping.
SyncTodo(pairs) ==
    LET present == SelectSeq(symbol_mapping_order,
                             LAMBDA kraken_pair : kraken_pair \in DOMAIN pairs)
    IN  [i \in DOMAIN present |-> <<present[i], get_kraken_symbol_mapping[present[i]]>>]

\* pairs = kraken.get_asset_pairs()
SyncFetch(r) ==
    /\ SyncMayStart(r)
    /\ \E reply \in ExchangeAssetPairs(exchange_pairs) :
          sreq' = [sreq EXCEPT ![r] =
                      IF reply.error THEN [IdleSyncFrame EXCEPT !.pc = "done", !.status = 500]
                      ELSE SyncAdvance([IdleSyncFrame EXCEPT
                                           !.pairs = Some(reply.result),
                                           !.listing = Some(reply.result),
                                           !.follows =
                                               /\ r > 1
                                               /\ \A q \in 1..(r - 1) :
                                                     /\ sreq[q].pc = "done"
                                                     /\ sreq[q].status = 200
                                                     /\ ~sreq[q].failed
                                                     /\ sreq[q].listing = Some(reply.result)],
                                       SyncTodo(reply.result))]
    /\ UNCHANGED symbols

\* symbol_info = trading_db.get_symbol_by_name(db_symbol)
SyncLookup(r) ==
    /\ sreq[r].pc = "lookup"
    /\ \E ok \in StoreOutcomes :
          LET frame == sreq[r]
              kraken_pair == Head(frame.todo)[1]
              db_symbol == Head(frame.todo)[2]
              pair_info == The(frame.pairs)[kraken_pair]
              online == DictGet(pair_info, "status", None) = Some("online")
          IN  \E symbol_info \in get_symbol_by_name(symbols, db_symbol, ok) :
                 sreq' = [sreq EXCEPT ![r] =
                             IF symbol_info = None
                             THEN [frame EXCEPT !.pc = "create", !.failed = @ \/ ~ok]
                             ELSE IF The(symbol_info).is_active # online
                             THEN [frame EXCEPT !.pc = "update", !.symbol_info = symbol_info]
                             ELSE SyncAdvance(frame, Tail(frame.todo))]
    /\ UNCHANGED symbols

\* trading_db.create_symbol(symbol_data); created_count += 1
SyncCreate(r) ==
    /\ sreq[r].pc = "create"
    /\ \E ok \in StoreOutcomes :
          LET frame == sreq[r]
              kraken_pair == Head(frame.todo)[1]
              db_symbol == Head(frame.todo)[2]
              pair_info == The(frame.pairs)[kraken_pair]
              symbol_data == [symbol |-> db_symbol,
                              name |-> DictGet(pair_info, "altname", db_symbol),
                              exchange |-> "Kraken", asset_type |-> "crypto",
                              currency |-> "USD",
                              is_active |-> DictGet(pair_info, "status", None) = Some("online")]
              done == create_symbol(symbols, Cardinality(symbols) + 1, symbol_data, ok)
          IN  /\ symbols' = done.table
              /\ sreq' = [sreq EXCEPT ![r] =
                             SyncAdvance([frame EXCEPT !.created_count = @ + 1,
                                                       !.last_ret = done.ret,
                                                       !.failed = @ \/ ~done.ret],
                                         Tail(frame.todo))]

\* trading_db.update_symbol(db_symbol, {"is_active": ...}); updated_count += 1
SyncUpdate(r) ==
    /\ sreq[r].pc = "update"
    /\ \E ok \in StoreOutcomes :
          LET frame == sreq[r]
              kraken_pair == Head(frame.todo)[1]
              db_symbol == Head(frame.todo)[2]
              pair_info == The(frame.pairs)[kraken_pair]
              update_data == [is_active |-> DictGet(pair_info, "status", None) = Some("online")]
              done == update_symbol(symbols, db_symbol, update_data, ok)
          IN  /\ symbols' = done.table
              /\ sreq' = [sreq EXCEPT ![r] =
                             SyncAdvance([frame EXCEPT !.updated_count = @ + 1,
                                                       !.last_ret = done.ret,
                                                       !.failed = @ \/ ~done.ret],
                                         Tail(frame.todo))]

\* Rows of symbols that no sync made: the get-or-create of an ingestion
\* (fetch_kraken_ohlc, fetch_kraken_ticker) for a pair the catalog lists but the
\* mapping lacks, or that the mapping has but the catalog lacks, or that was
\* ingested before any sync (the row is made active whatever the listing says).
IngestCreatesSymbol ==
    /\ \E pair \in {XDGUSD, XBTUSDT, ETHUSD} :
          LET db_symbol == DictGet(get_kraken_symbol_mapping, pair, pair)
              symbol_data == [symbol |-> db_symbol, name |-> db_symbol,
                              exchange |-> "Kraken", asset_type |-> "crypto",
                              currency |-> "USD", is_active |-> TRUE]
          IN  /\ \A row \in symbols : row.symbol # db_symbol
              /\ symbols' = create_symbol(symbols, Cardinality(symbols) + 1,
                                          symbol_data, TRUE).table
    /\ UNCHANGED <<market_data, real_time_prices, db_clock, ireq, catalog_vars, sreq, qreq, kreq, preq, dreq>>

sync_kraken_symbols(r) == SyncFetch(r) \/ SyncLookup(r) \/ SyncCreate(r) \/ SyncUpdate(r)

----------------------------------------------------------------------------
\* main.py: get_kraken_pairs where no cache is deployed (get_cache() returns
\* None): the handler makes one call, to the exchange, and answers.  The
\* catalogs the exchange may serve and the query parameters are inputs.

MaxLimit == 3

MaxOffset == 5

\* Five listings of mixed status; one entry carries an altname only.
CatalogWide ==
    (XBTUSD :> PairInfo(XBTUSD, <<"X","B","T","/","U","S","D">>,
                        <<"X","X","B","T">>, <<"Z","U","S","D">>, "online"))
    @@ (XBTUSDT :> PairInfo(XBTUSDT, <<"X","B","T","/","U","S","D","T">>,
                            <<"X","X","B","T">>, <<"U","S","D","T">>, "post_only"))
    @@ (ETHUSD :> PairInfo(ETHUSD, <<"E","T","H","/","U","S","D">>,
                           <<"X","E","T","H">>, <<"Z","U","S","D">>, "cancel_only"))
    @@ (XDGUSD :> PairInfo(XDGUSD, <<"X","D","G","/","U","S","D">>,
                           <<"X","X","D","G">>, <<"Z","U","S","D">>, "online"))
    @@ (ADAUSD :> [altname |-> <<"a","d","a","u","s","d">>])

\* Two listings short of names: one with nothing but a status, one whose
\* wsname is the empty text.
CatalogBare ==
    (XDGUSD :> [status |-> Some("online")])
    @@ (ETHUSD :> [wsname |-> << >>, altname |-> <<"e","t","h","u","s","d">>,
                   status |-> Some("online")])

QueryCatalogs == {CatalogOld, CatalogNew, CatalogWide, CatalogBare}

\* limit: Query(ge=1, le=2000); offset: Query(ge=0).
QueryLimits == 1..MaxLimit

QueryOffsets == 0..MaxOffset

\* status: Optional[str], default "online"; "?status=" gives the empty text.
QueryStatuses == {Some("online"), Some("all"), Some("cancel_only"), Some("post_only"), Some("")}

\* search: Optional[str], default None.
QuerySearches ==
    {None, Some(<< >>), Some(<<"d","o","g","e">>), Some(<<"D","O","G","E">>),
     Some(<<"b","t","c">>), Some(<<"x","b","t">>), Some(<<"U","s","d">>),
     Some(<<"e","t","h","/">>)}

\* filtered: the keys of the handler's filtered_pairs; body: the answer sent.
IdleQueryFrame ==
    [pc |-> "idle", params |-> None, pairs |-> None, filtered |-> {},
     status |-> 0, body |-> None]

\* GET /kraken/pairs, from the request to the answer.  The handler keeps nothing
\* between requests here, so one request is followed from the initial state.
PairsQuery ==
    /\ qreq.pc = "idle"
    /\ \E pairs \in QueryCatalogs, limit \in QueryLimits, offset \in QueryOffsets,
          status \in QueryStatuses, search \in QuerySearches :
          \E reply \in ExchangeAssetPairs(pairs) :
             LET params == [limit |-> limit, offset |-> offset,
                            status |-> status, search |-> search]
             IN  qreq' =
                    IF reply.error
                    THEN [IdleQueryFrame EXCEPT !.pc = "done", !.params = Some(params),
                                                !.status = 500]
                    ELSE [pc |-> "done", params |-> Some(params),
                          pairs |-> Some(reply.result),
                          filtered |-> DOMAIN SearchFilter(StatusFilter(reply.result, status),
                                                           search),
                          status |-> 200,
                          body |-> Some(PairsAnswer(reply.result, limit, offset, status,
                                                    search, FALSE))]
    /\ UNCHANGED <<ingest_vars, catalog_vars, sreq, kreq, preq, dreq>>

----------------------------------------------------------------------------
\* kraken_client.py: one call of a method of KrakenClient, with what the
\* network gives to the requests it sends.

\* A body that lacks "result".
NoResult == [kind |-> "json", body |-> [error |-> << >>]]

ClientWires(results) ==
    Wires(results)
    \cup {<<NoResult, second>> : second \in UNION {Replies(result) : result \in results}}

IdleClientFrame == [pc |-> "idle", call |-> "none", wire |-> << >>, out |-> << >>]

ClientReturns(call, wire, out) == [pc |-> "done", call |-> call, wire |-> wire, out |-> out]

KrakenCall ==
    /\ kreq.pc = "idle"
    /\ \/ \E wire \in ClientWires(OhlcResultsAnyOrder(XBTUSD, 60)) :
             kreq' = ClientReturns("OHLC", wire, get_ohlc(XBTUSD, 60, wire))
       \/ \E wire \in ClientWires(TickerResults) :
             kreq' = ClientReturns("Ticker", wire, get_ticker(XBTUSD, wire))
       \/ \E wire \in ClientWires({CatalogOld}) :
             kreq' = ClientReturns("AssetPairs", wire, get_asset_pairs(wire))
    /\ UNCHANGED <<ingest_vars, catalog_vars, sreq, qreq, preq, dreq>>

----------------------------------------------------------------------------
\* kraken_client.py: one call of parse_ticker_data or of parse_ohlc_data, on
\* payloads as the exchange may send them.

MaxRows == 3

\* Rows of 8, 3, 7, 9 and 0 fields.
RowPool ==
    {Row1, Row2, ShortRow, BadRow, << >>,
     <<1700014400, 100, 110, 95, 105, 102, 50>>,
     <<1700018000, 200, 210, 190, 205, 202, 80, 40, 1>>}

OhlcInputs == UNION {[1..n -> RowPool] : n \in 0..MaxRows}

\* "o" as the exchange may send it, or absent.
OpenInputs ==
    {Num(0), Num(90), Num(-5), Str(0), Str(90), Str(110), Str(-5), EmptyStr, JunkStr, ListVal}

TickerInputs ==
    LET sides == {[a |-> <<101, 1, 1>>, b |-> <<99, 1, 1>>, v |-> <<10, 500>>], << >>}
        closes == {<<100, 5>>, <<0, 0>>, <<90, 1>>}
    IN  {side @@ [c |-> close] : side \in sides, close \in closes}
        \cup {side @@ [c |-> close, o |-> open] :
                 side \in sides, close \in closes, open \in OpenInputs}

\* Spellings of a pair: upper, lower or mixed case, with no separator or with
\* "/" or "-" before the text, after its third letter or after its last.
PairSpellings ==
    LET bases == {<<"B","T","C">>, <<"B","T","C","U","S","D">>, ETHUSD, DOGEUSD, XBTUSD}
        mixed(text) == [i \in DOMAIN text |-> IF i % 2 = 1 THEN text[i] ELSE StrLower(text)[i]]
        cases(text) == {text, StrLower(text), mixed(text)}
        insert(text, c, pos) == SubSeq(text, 1, pos) \o <<c>> \o SubSeq(text, pos + 1, Len(text))
    IN  UNION {{text} \cup {insert(text, c, pos) : c \in {"/", "-"}, pos \in {0, 3, Len(text)}} :
                 text \in UNION {cases(base) : base \in bases}}

IdleParseFrame == [pc |-> "idle", fn |-> "none", input |-> << >>, label |-> "", out |-> << >>]

ParseTicker ==
    /\ preq.pc = "idle"
    /\ \E ticker_data \in TickerInputs :
          preq' = [pc |-> "done", fn |-> "parse_ticker_data", input |-> ticker_data,
                   label |-> "", out |-> parse_ticker_data(ticker_data, XBTUSD)]
    /\ UNCHANGED <<ingest_vars, catalog_vars, sreq, qreq, kreq, dreq>>

\* str.replace(old, new): every occurrence of old, from the left.
RECURSIVE StrReplace(_, _, _)
StrReplace(s, old, new) ==
    IF Len(s) < Len(old) THEN s
    ELSE IF SubSeq(s, 1, Len(old)) = old
    THEN new \o StrReplace(SubSeq(s, Len(old) + 1, Len(s)), old, new)
    ELSE <<s[1]>> \o StrReplace(Tail(s), old, new)

\* main.py, add_kraken_pair without db_symbol: the symbol inferred from the
\* normalized pair.  XBT becomes BTC in a pair that starts with XBT; a text of
\* more than 6 characters without a slash is split before the first of USD,
\* USDT, EUR, GBP that it ends with.
add_kraken_pair_db_symbol(normalized_pair) ==
    LET XBT == <<"X","B","T">>
        EndsWith(text, quote) ==
            Len(quote) <= Len(text)
            /\ SubSeq(text, Len(text) - Len(quote) + 1, Len(text)) = quote
        db_symbol == IF Len(normalized_pair) >= 3 /\ SubSeq(normalized_pair, 1, 3) = XBT
                     THEN StrReplace(normalized_pair, XBT, <<"B","T","C">>)
                     ELSE normalized_pair
        quotes == SelectSeq(<< <<"U","S","D">>, <<"U","S","D","T">>,
                               <<"E","U","R">>, <<"G","B","P">> >>,
                            LAMBDA quote : EndsWith(db_symbol, quote))
    IN  IF (\A i \in DOMAIN db_symbol : db_symbol[i] # "/")
           /\ Len(db_symbol) > 6 /\ quotes # << >>
        THEN SubSeq(db_symbol, 1, Len(db_symbol) - Len(quotes[1])) \o <<"/">> \o quotes[1]
        ELSE db_symbol

\* The symbol add_kraken_pair infers for a pair and the symbol ingestion
\* resolves it to (symbol_mapping.get(normalized_pair, normalized_pair)).
AddPairSymbol ==
    /\ preq.pc = "idle"
    /\ \E kraken_pair \in DOMAIN get_kraken_symbol_mapping \cup PairSpellings :
          LET normalized_pair == normalize_pair(kraken_pair)
          IN  preq' = [pc |-> "done", fn |-> "add_kraken_pair", input |-> <<kraken_pair>>,
                       label |-> "",
                       out |-> <<add_kraken_pair_db_symbol(normalized_pair),
                                 DictGet(get_kraken_symbol_mapping, normalized_pair,
                                         normalized_pair)>>]
    /\ UNCHANGED <<ingest_vars, catalog_vars, sreq, qreq, kreq, dreq>>

\* Two calls of normalize_pair, one after the other.
NormalizePair ==
    /\ preq.pc = "idle"
    /\ \E pair \in PairSpellings,
          other \in {<<"B","T","C","/","U","S","D">>, <<"b","t","c","u","s","d">>,
                     <<"B","T","C","-","U","S","D">>, <<"e","t","h","-","U","S","D">>,
                     <<"b","t","c">>, <<"d","o","g","e","/","u","s","d">>, XBTUSD} :
          preq' = [pc |-> "done", fn |-> "normalize_pair", input |-> <<pair, other>>,
                   label |-> "", out |-> <<normalize_pair(pair), normalize_pair(other)>>]
    /\ UNCHANGED <<ingest_vars, catalog_vars, sreq, qreq, kreq, dreq>>

TimeframeInterval ==
    /\ preq.pc = "idle"
    /\ \E timeframe \in DOMAIN TIMEFRAME_MAP \cup {"2h", "1H", "1D", "60", ""} :
          preq' = [pc |-> "done", fn |-> "get_timeframe_interval", input |-> << >>,
                   label |-> timeframe, out |-> <<get_timeframe_interval(timeframe)>>]
    /\ UNCHANGED <<ingest_vars, catalog_vars, sreq, qreq, kreq, dreq>>

ParseOhlc ==
    /\ preq.pc = "idle"
    /\ \E ohlc_data \in OhlcInputs, timeframe \in Timeframes :
          preq' = [pc |-> "done", fn |-> "parse_ohlc_data", input |-> ohlc_data,
                   label |-> timeframe, out |-> parse_ohlc_data(ohlc_data, timeframe, XBTUSD)]
    /\ UNCHANGED <<ingest_vars, catalog_vars, sreq, qreq, kreq, dreq>>

----------------------------------------------------------------------------
\* database_client.py: a client that calls TradingBotDatabase directly, one
\* call after the other, as test_symbol_crud_operations does.

MaxCalls == 4

TEST == <<"T","E","S","T">>

TSLA == <<"T","S","L","A">>

\* symbol_data of create_symbol: every key, or the required keys only.
SymbolDatas ==
    {[symbol |-> TEST, name |-> <<"T","e","s","t">>, exchange |-> "TEST_EXCHANGE",
      asset_type |-> "stock", currency |-> "USD", sector |-> Some("Technology"),
      industry |-> Some("Software"), market_cap |-> Some(1000), is_active |-> TRUE],
     [symbol |-> TSLA, name |-> <<"T","e","s","l","a">>, exchange |-> "NASDAQ",
      asset_type |-> "stock"]}

\* update_data of update_symbol: every key, or the name only.  The values of
\* the nullable columns are written Some(v), as in symbol_data.
UpdateDatas ==
    {[name |-> <<"U","p","d">>, sector |-> Some("Updated Technology"),
      industry |-> Some("Updated Software"), market_cap |-> Some(2000)],
     [name |-> <<"N","e","w">>]}

IdleDbFrame ==
    [fn |-> "none", symbol |-> << >>, arg |-> << >>, ok |-> TRUE, ret |-> FALSE,
     found |-> None, before |-> {}, calls |-> 0, pc |-> "idle", status |-> 0]

\* ret is the flag a write returned, found the row a lookup returned.
DbCall(fn, symbol, arg, ok, ret, found) ==
    [fn |-> fn, symbol |-> symbol, arg |-> arg, ok |-> ok, ret |-> ret, found |-> found,
     before |-> {row \in symbols : row.symbol = symbol}, calls |-> dreq.calls + 1,
     pc |-> "idle", status |-> 0]

DbCreate ==
    /\ dreq.calls < MaxCalls
    /\ \E symbol_data \in SymbolDatas, ok \in StoreOutcomes :
          LET done == create_symbol(symbols, dreq.calls + 1, symbol_data, ok)
          IN  /\ symbols' = done.table
              /\ dreq' = DbCall("create_symbol", symbol_data.symbol, symbol_data, ok, done.ret, None)
    /\ UNCHANGED <<market_data, real_time_prices, db_clock, ireq, catalog_vars,
                   sreq, qreq, kreq, preq>>

DbGet ==
    /\ dreq.calls < MaxCalls
    /\ \E symbol \in {TEST, TSLA}, ok \in StoreOutcomes :
          \E found \in get_symbol_by_name(symbols, symbol, ok) :
             dreq' = DbCall("get_symbol_by_name", symbol, << >>, ok, FALSE, found)
    /\ UNCHANGED <<ingest_vars, catalog_vars, sreq, qreq, kreq, preq>>

DbUpdate ==
    /\ dreq.calls < MaxCalls
    /\ \E symbol \in {TEST, TSLA}, update_data \in UpdateDatas, ok \in StoreOutcomes :
          LET done == update_symbol(symbols, symbol, update_data, ok)
          IN  /\ symbols' = done.table
              /\ dreq' = DbCall("update_symbol", symbol, update_data, ok, done.ret, None)
    /\ UNCHANGED <<market_data, real_time_prices, db_clock, ireq, catalog_vars,
                   sreq, qreq, kreq, preq>>

DbDelete ==
    /\ dreq.calls < MaxCalls
    /\ \E symbol \in {TEST, TSLA}, ok \in StoreOutcomes :
          LET done == delete_symbol(symbols, symbol, ok)
          IN  /\ symbols' = done.table
              /\ dreq' = DbCall("delete_symbol", symbol, << >>, ok, done.ret, None)
    /\ UNCHANGED <<market_data, real_time_prices, db_clock, ireq, catalog_vars,
                   sreq, qreq, kreq, preq>>

----------------------------------------------------------------------------
\* main.py: POST /market-data (insert_market_data) and POST /real-time-prices
\* (update_real_time_price), one request, while ingestions create symbols.

XYZ == <<"X","Y","Z">>

\* The bodies of the two requests, for a symbol.
WriteBodies(symbol) ==
    {[fn |-> "insert_market_data", symbol |-> symbol,
      data |-> [timestamp |-> 1700000000, open |-> 100, high |-> 110, low |-> 95,
                close |-> 105, volume |-> 50, adjusted_close |-> None,
                time_frame |-> "1h", data_source |-> "manual"]],
     [fn |-> "update_real_time_price", symbol |-> symbol,
      data |-> [price |-> 100, bid |-> Some(99), ask |-> Some(101), volume_24h |-> None,
                change_24h |-> None, change_percent_24h |-> None, market_cap |-> None,
                data_source |-> "manual"]]}

WriteBegin ==
    /\ dreq = IdleDbFrame
    /\ \E symbol \in {XDGUSD, get_kraken_symbol_mapping[XBTUSDT], XYZ} :
          \E body \in WriteBodies(symbol) :
          dreq' = [dreq EXCEPT !.fn = body.fn, !.symbol = body.symbol, !.arg = body.data,
                               !.pc = "lookup"]
    /\ UNCHANGED <<ingest_vars, catalog_vars, sreq, qreq, kreq, preq>>

\* As WriteLookup, with the get-or-create of the ingestion handlers in place
\* of the 404.
WriteLookup_GetOrCreate ==
    /\ dreq.pc = "lookup"
    /\ \E ok \in StoreOutcomes :
          \E symbol_info \in get_symbol_by_name(symbols, dreq.symbol, ok) :
             LET symbol_data == [symbol |-> dreq.symbol, name |-> dreq.symbol,
                                 exchange |-> "Kraken", asset_type |-> "crypto"]
                 done == create_symbol(symbols, Cardinality(symbols) + 1, symbol_data, TRUE)
             IN  IF symbol_info = None
                 THEN /\ symbols' = done.table
                      /\ dreq' = [dreq EXCEPT
                                     !.ok = ok,
                                     !.before = {row \in symbols : row.symbol = dreq.symbol},
                                     !.found = Some(CHOOSE row \in done.table :
                                                       row \notin symbols),
                                     !.pc = "write"]
                 ELSE /\ symbols' = symbols
                      /\ dreq' = [dreq EXCEPT
                                     !.ok = ok,
                                     !.before = {row \in symbols : row.symbol = dreq.symbol},
                                     !.found = symbol_info, !.pc = "write"]
    /\ UNCHANGED <<market_data, real_time_prices, db_clock, ireq, catalog_vars,
                   sreq, qreq, kreq, preq>>

\* symbol_info = trading_db.get_symbol_by_name(data.symbol);
\* if not symbol_info: raise HTTPException(status_code=404, ...)
WriteLookup ==
    /\ dreq.pc = "lookup"
    /\ \E ok \in StoreOutcomes :
          \E symbol_info \in get_symbol_by_name(symbols, dreq.symbol, ok) :
             dreq' = [dreq EXCEPT
                         !.ok = ok,
                         !.before = {row \in symbols : row.symbol = dreq.symbol},
                         !.found = symbol_info,
                         !.pc = IF symbol_info = None THEN "done" ELSE "write",
                         !.status = IF symbol_info = None THEN 404 ELSE 0]
    /\ UNCHANGED <<ingest_vars, catalog_vars, sreq, qreq, kreq, preq>>

\* success = trading_db.insert_market_data(symbol_id, market_data_dict), or
\* trading_db.update_real_time_price(symbol_id, price_dict); 500 if not success.
WriteStore ==
    /\ dreq.pc = "write"
    /\ \E ok \in StoreOutcomes :
          LET symbol_id == The(dreq.found).id
              inserted == insert_market_data(market_data, symbol_id, dreq.arg, ok)
              updated == update_real_time_price(real_time_prices, symbol_id, dreq.arg,
                                                db_clock + 1, ok)
              insert == dreq.fn = "insert_market_data"
              success == IF insert THEN inserted.ret ELSE updated.ret
          IN  /\ market_data' = IF insert THEN inserted.table ELSE market_data
              /\ real_time_prices' = IF insert THEN real_time_prices ELSE updated.table
              /\ db_clock' = IF ~insert /\ ok THEN db_clock + 1 ELSE db_clock
              /\ dreq' = [dreq EXCEPT !.ret = success, !.pc = "done",
                                      !.status = IF success THEN 200 ELSE 500]
    /\ UNCHANGED <<symbols, ireq, catalog_vars, sreq, qreq, kreq, preq>>

----------------------------------------------------------------------------
\* database_client.py: one call of a method of DatabaseClient, and one run of
\* a statement batch of TradingBotDatabase (create_tables, seed_data).

MaxStatements == 3

DbMethods ==
    {"execute_prepared_sql", "execute_prepared_select", "execute_prepared_insert",
     "execute_prepared_update", "execute_prepared_delete", "validate_sql"}

DbRequest ==
    /\ dreq = IdleDbFrame
    /\ \E method \in DbMethods, reply \in DbReplies :
          dreq' = [fn |-> method, pc |-> "done", reply |-> reply,
                   out |-> DatabaseClient_call(method, reply)]
    /\ UNCHANGED <<ingest_vars, catalog_vars, sreq, qreq, kreq, preq>>

\* The statements of a file after the split at ";" and the strip: the texts
\* they begin with.
SqlFiles ==
    LET statements == {<<"C","R","E","A","T","E">>, <<"i","n","s","e","r","t">>,
                       <<"S","E","L","E","C","T">>, <<"-","-","D","R","O","P">>}
    IN  UNION {[1..n -> statements] : n \in 0..MaxStatements}

\* statement.upper().startswith(prefixes)
StartsWithAny(statement, prefixes) ==
    \E prefix \in prefixes :
        /\ Len(prefix) <= Len(statement)
        /\ SubSeq(StrUpper(statement), 1, Len(prefix)) = prefix

BatchPrefixes(fn) ==
    IF fn = "create_tables"
    THEN {<<"C","R","E","A","T","E">>, <<"A","L","T","E","R">>, <<"D","R","O","P">>,
          <<"I","N","S","E","R","T">>}
    ELSE {<<"I","N","S","E","R","T">>}

\* with open(sql_file, 'r') as f: ... ; a file that cannot be read ends the
\* call in the outer except with False.
BatchOpen ==
    /\ dreq = IdleDbFrame
    /\ \E fn \in {"create_tables", "seed_data"}, readable \in BOOLEAN, file \in SqlFiles :
          dreq' = [fn |-> fn, pc |-> IF readable THEN "run" ELSE "done",
                   file |-> IF readable THEN file ELSE << >>, idx |-> 1,
                   executed |-> << >>, reported |-> << >>, ret |-> FALSE]
    /\ UNCHANGED <<ingest_vars, catalog_vars, sreq, qreq, kreq, preq>>

\* As BatchStep, with a loop that logs a failed statement and goes on.
BatchStep_GoOn ==
    /\ dreq.pc = "run"
    /\ IF dreq.idx > Len(dreq.file)
       THEN dreq' = [dreq EXCEPT !.pc = "done", !.ret = TRUE]
       ELSE IF ~StartsWithAny(dreq.file[dreq.idx], BatchPrefixes(dreq.fn))
       THEN dreq' = [dreq EXCEPT !.idx = @ + 1]
       ELSE \E reply \in DbReplies :
               LET result == DatabaseClient_call("execute_prepared_sql", reply)
                   success == ~result.raised /\ DictGet(result.value, "success", FALSE)
                   ran == [dreq EXCEPT !.executed = Append(@, <<dreq.idx, success>>)]
               IN  dreq' = IF result.raised THEN [ran EXCEPT !.pc = "done"]
                           ELSE IF ~success
                           THEN [ran EXCEPT !.reported = Append(@, dreq.idx), !.idx = @ + 1]
                           ELSE [ran EXCEPT !.idx = @ + 1]
    /\ UNCHANGED <<ingest_vars, catalog_vars, sreq, qreq, kreq, preq>>

\* One turn of "for statement in statements", or the return after the loop.
BatchStep ==
    /\ dreq.pc = "run"
    /\ IF dreq.idx > Len(dreq.file)
       THEN dreq' = [dreq EXCEPT !.pc = "done", !.ret = TRUE]
       ELSE IF ~StartsWithAny(dreq.file[dreq.idx], BatchPrefixes(dreq.fn))
       THEN dreq' = [dreq EXCEPT !.idx = @ + 1]
       ELSE \E reply \in DbReplies :
               LET result == DatabaseClient_call("execute_prepared_sql", reply)
                   success == ~result.raised /\ DictGet(result.value, "success", FALSE)
                   ran == [dreq EXCEPT !.executed = Append(@, <<dreq.idx, success>>)]
               IN  dreq' = IF result.raised THEN [ran EXCEPT !.pc = "done"]
                           ELSE IF ~success
                           THEN [ran EXCEPT !.reported = Append(@, dreq.idx), !.pc = "done"]
                           ELSE [ran EXCEPT !.idx = @ + 1]
    /\ UNCHANGED <<ingest_vars, catalog_vars, sreq, qreq, kreq, preq>>

----------------------------------------------------------------------------
\* Specifications: one per group of handlers, on the shared state.

InitIngest ==
    /\ symbols = {}
    /\ market_data = {}
    /\ real_time_prices = {}
    /\ db_clock = 0
    /\ ireq = [r \in IngestIds |-> IdleFrame]

Init ==
    /\ InitIngest
    /\ InitCatalog
    /\ sreq = [r \in SyncIds |-> IdleSyncFrame]
    /\ qreq = IdleQueryFrame
    /\ kreq = IdleClientFrame
    /\ preq = IdleParseFrame
    /\ dreq = IdleDbFrame

NextOhlc == (\E r \in IngestIds : fetch_kraken_ohlc(r)) /\ UNCHANGED <<catalog_vars, sreq, qreq, kreq, preq, dreq>>

SpecOhlc == Init /\ [][NextOhlc]_vars

NextTicker == (\E r \in IngestIds : fetch_kraken_ticker(r)) /\ UNCHANGED <<catalog_vars, sreq, qreq, kreq, preq, dreq>>

\* Requests of both kinds, side by side.
SpecIngest == Init /\ [][NextOhlc \/ NextTicker]_vars

SpecTicker == Init /\ [][NextTicker]_vars

NextCatalog ==
    /\ \/ \E r \in CatalogIds : get_kraken_pairs(r) \/ refresh_kraken_pairs(r)
       \/ Tick
       \/ RedisOutage
       \/ ExchangeRelist
    /\ UNCHANGED <<ingest_vars, sreq, qreq, kreq, preq, dreq>>

SpecCatalog == Init /\ [][NextCatalog]_vars

\* A handler that is running keeps running: the last request taken is never
\* suspended for good.  Nothing is assumed of the other requests, which may
\* stop at any call and never come back.
LastCatalogStep ==
    /\ get_kraken_pairs(MaxCatalog) \/ refresh_kraken_pairs(MaxCatalog)
    /\ UNCHANGED <<ingest_vars, sreq, qreq, kreq, preq, dreq>>

NextSync ==
    \/ /\ \E r \in SyncIds : sync_kraken_symbols(r)
       /\ UNCHANGED <<market_data, real_time_prices, db_clock, ireq, catalog_vars, qreq, kreq, preq, dreq>>
    \/ ExchangeRelist /\ UNCHANGED <<ingest_vars, sreq, qreq, kreq, preq, dreq>>
    \/ IngestCreatesSymbol

SpecSync == Init /\ [][NextSync]_vars

SpecCatalogFair == SpecCatalog /\ WF_vars(LastCatalogStep)

NextCatalogNull ==
    \/ NextCatalog
    \/ ExchangeNull /\ UNCHANGED <<ingest_vars, sreq, qreq, kreq, preq, dreq>>

SpecCatalogNull == Init /\ [][NextCatalogNull]_vars

NextQuery == PairsQuery

NextClient == KrakenCall

NextCrud == DbCreate \/ DbGet \/ DbUpdate \/ DbDelete

SpecCrud == Init /\ [][NextCrud]_vars

NextWrite == WriteBegin \/ WriteLookup \/ WriteStore \/ IngestCreatesSymbol

SpecWrite == Init /\ [][NextWrite]_vars

NextStore == DbRequest \/ BatchOpen \/ BatchStep

SpecStore == Init /\ [][NextStore]_vars

NextParse == ParseTicker \/ ParseOhlc \/ NormalizePair \/ TimeframeInterval \/ AddPairSymbol

SpecParse == Init /\ [][NextParse]_vars

SpecClient == Init /\ [][NextClient]_vars

SpecQuery == Init /\ [][NextQuery]_vars

----------------------------------------------------------------------------
\* Claims on OHLC ingestion (SpecOhlc).

OhlcDone(r) == ireq[r].kind = "ohlc" /\ ireq[r].pc = "done"

\* C1: the records_inserted an OHLC ingest reports counts only the rows the call
\* really added to market_data; a record whose key was already stored does not
\* count, so re-ingesting the same batch reports records_inserted = 0 with the
\* same records_fetched.
C1_InsertedCountsNewRows ==
    \A r \in IngestIds :
        OhlcDone(r) /\ ireq[r].resp.status = 200
            => ireq[r].resp.records_inserted = ireq[r].written

\* C4: market_data never holds two rows of one key (symbol_id, t_stamp,
\* time_frame, data_source); a stored row is never altered or removed by a later
\* insert; and every insert the store answers, the conflicting ones included,
\* is reported as a success.
C4_KeyUnique ==
    /\ \A x, y \in market_data : MarketDataKey(x) = MarketDataKey(y) => x = y
    /\ \A r \in IngestIds : ireq[r].kind = "ohlc" => ireq[r].inserted_count = ireq[r].answered

C4_RowsKept == \A row \in market_data : row \in market_data'

C4_IdempotentInsert == []C4_KeyUnique /\ [][C4_RowsKept]_vars

\* An answered insert met a stored key (it added nothing) and the ingest went on
\* to return 200, while the exchange now reports other values for that candle.
C4_Witness ==
    \E r \in IngestIds :
        /\ OhlcDone(r) /\ ireq[r].resp.status = 200
        /\ ireq[r].answered > ireq[r].written
        /\ \E row \in market_data :
              row.t_stamp = isoformat(Row2[1]) /\ row.close = Row2Early[5]
        /\ \E q \in IngestIds : q # r /\ OhlcDone(q) /\ ireq[q].written = 2

Writing(r) == ireq[r].kind = "ohlc" /\ ireq[r].pc = "write"

C11_InLoop ==
    \A r \in IngestIds :
        Writing(r) =>
            /\ ireq[r].idx \in 1..Len(ireq[r].parsed)
            /\ ireq[r].answered <= ireq[r].idx - 1
            /\ ireq[r].inserted_count = ireq[r].answered

C11_Pass ==
    \A r \in IngestIds :
        Writing(r) /\ ireq'[r] # ireq[r] =>
            /\ ireq'[r].answered \in {ireq[r].answered, ireq[r].answered + 1}
            /\ ireq'[r].answered = ireq[r].answered => market_data' = market_data
            /\ IF ireq[r].idx < Len(ireq[r].parsed)
               THEN /\ Writing(r)'
                    /\ ireq'[r].idx = ireq[r].idx + 1
                    /\ ireq'[r].parsed = ireq[r].parsed
               ELSE /\ OhlcDone(r)'
                    /\ ireq'[r].resp = [status |-> 200,
                                        records_fetched |-> Len(ireq[r].parsed),
                                        records_inserted |-> ireq'[r].answered]

\* C11: a record whose write fails (the store does not answer, or answers
\* without success) does not end the batch: every pass of the loop, failed or
\* not, moves on to the next parsed record, and after the last record the
\* ingest returns 200 with records_fetched = the number of parsed records and
\* records_inserted = the number of records whose write the store answered
\* with success.
C11_BestEffortBatch == []C11_InLoop /\ [][C11_Pass]_vars

\* The write of the first of two records failed, the second was written, and
\* the ingest returned 200 with 1 of 2.
C11_Witness ==
    \E r \in IngestIds :
        /\ OhlcDone(r)
        /\ ireq[r].resp = [status |-> 200, records_fetched |-> 2, records_inserted |-> 1]
        /\ \A q \in IngestIds : q # r => ireq[q].pc = "idle"
        /\ \E row \in market_data : market_data = {row} /\ row.t_stamp = isoformat(Row2[1])

\* high >= max(open, close, low) and low <= min(open, close, high)
HighLowBound(open, high, low, close) ==
    /\ high >= open /\ high >= close /\ high >= low
    /\ low <= open /\ low <= close

\* The raw rows of at least 8 fields that the exchange may send.
RawRows == {Row1, Row2, Row2Early, BadRow}

\* C18, as stated: every row that ingestion wrote to market_data has
\* high >= max(open, close, low) and low <= min(open, close, high).
C18_HighLowBound ==
    \A row \in market_data : HighLowBound(row.open, row.high, row.low, row.close)

\* C18, amended: every row that ingestion wrote to market_data carries the
\* open, high, low and close of a raw row of at least 8 fields as the exchange
\* sent them, so it has high >= max(open, close, low) and
\* low <= min(open, close, high) exactly when that raw row has; nothing is
\* checked or repaired on the way.
C18_RawRowKept ==
    \A row \in market_data :
        \E raw \in RawRows :
            /\ Len(raw) >= 8
            /\ row.t_stamp = isoformat(raw[1])
            /\ <<row.open, row.high, row.low, row.close>> = <<raw[2], raw[3], raw[4], raw[5]>>
            /\ HighLowBound(row.open, row.high, row.low, row.close)
                  = HighLowBound(raw[2], raw[3], raw[4], raw[5])

\* Two ingests stored a well-formed candle and a malformed one.
C18_Witness ==
    /\ \A r \in IngestIds : OhlcDone(r) /\ ireq[r].resp.status = 200
    /\ \E row \in market_data :
          row.t_stamp = isoformat(Row1[1]) /\ HighLowBound(row.open, row.high, row.low, row.close)
    /\ \E row \in market_data :
          row.t_stamp = isoformat(BadRow[1]) /\ ~HighLowBound(row.open, row.high, row.low, row.close)

\* C10: an ingest whose create_symbol failed ends with an error and writes no
\* market_data row and no real_time_prices row.
C10_CreateFailureAborts ==
    \A r \in IngestIds :
        ireq[r].pc = "done" /\ ireq[r].create = "failed"
            => ireq[r].resp.status = 500 /\ ireq[r].written = 0 /\ ireq[r].applied_at = 0

\* C30: however the lookups, creates and re-lookups of concurrent ingests of
\* one unknown pair interleave, the store holds one symbol row for the
\* internal symbol and every ingest that resolved it writes under the
\* identifier of that row.
C30_OneSymbolRow ==
    \A r \in IngestIds :
        ireq[r].symbol_id # 0 =>
            /\ Cardinality({row \in symbols : row.symbol = ireq[r].db_symbol}) = 1
            /\ \A q \in IngestIds :
                  ireq[q].symbol_id # 0 /\ ireq[q].db_symbol = ireq[r].db_symbol =>
                      ireq[q].symbol_id = ireq[r].symbol_id

\* C31: ingestion goes on to create_symbol only from a lookup of a symbol
\* that the store does not hold; a lookup that fails while the symbol is
\* stored is answered as a store error, with no create_symbol sent.
C31_CreateOnlyWhenAbsent ==
    [][\A r \in IngestIds :
          ireq[r].pc = "lookup" /\ ireq'[r].pc = "create" =>
              {row \in symbols : row.symbol = ireq[r].db_symbol} = {}]_vars

----------------------------------------------------------------------------
\* Claims on ticker ingestion (SpecTicker).

Applied(r) == ireq[r].kind = "ticker" /\ ireq[r].applied_at > 0

SentKey(r) == <<ireq[r].sent[1], ireq[r].sent[2].data_source>>

\* The applied upsert of r is the latest one on its key.
LatestOnKey(r) ==
    /\ Applied(r)
    /\ \A q \in IngestIds :
          Applied(q) /\ SentKey(q) = SentKey(r) => ireq[q].applied_at <= ireq[r].applied_at

\* C2: for every (symbol_id, data_source) that was upserted, real_time_prices
\* holds exactly one row, whose price, bid, ask, volume and change fields are
\* those of the upsert applied last; there is no row nobody upserted; and an
\* upsert leaves the rows of every other key as they were.
C2_OneRowLatest ==
    /\ \A x, y \in real_time_prices : PriceKey(x) = PriceKey(y) => x = y
    /\ \A row \in real_time_prices : \E r \in IngestIds : Applied(r) /\ SentKey(r) = PriceKey(row)
    /\ \A r \in IngestIds :
          LatestOnKey(r) =>
              \E row \in real_time_prices :
                  /\ PriceKey(row) = SentKey(r)
                  /\ row.price = ireq[r].sent[2].price
                  /\ row.bid = ireq[r].sent[2].bid
                  /\ row.ask = ireq[r].sent[2].ask
                  /\ row.volume_24h = ireq[r].sent[2].volume_24h
                  /\ row.change_24h = ireq[r].sent[2].change_24h
                  /\ row.change_percent_24h = ireq[r].sent[2].change_percent_24h

C2_OtherKeysKept ==
    \A r \in IngestIds :
        ireq[r].pc = "write" /\ ireq'[r].pc = "done" =>
            {row \in real_time_prices : row.symbol_id # ireq[r].symbol_id}
                = {row \in real_time_prices' : row.symbol_id # ireq[r].symbol_id}

C2_UpsertKeepsOneRow == []C2_OneRowLatest /\ [][C2_OtherKeysKept]_vars

\* Two upserts of one key, one after the other, with different prices: the
\* single stored row carries the second price.
C2_Witness ==
    /\ Cardinality(real_time_prices) = 1
    /\ \E r, q \in IngestIds :
          /\ Applied(r) /\ Applied(q) /\ SentKey(r) = SentKey(q)
          /\ ireq[r].applied_at <= ireq[q].began_at
          /\ ireq[r].sent[2].price # ireq[q].sent[2].price
          /\ \E row \in real_time_prices : row.price = ireq[q].sent[2].price

\* The row an applied ticker ingest asked the store to hold.
SentRow(r) ==
    [symbol_id |-> ireq[r].sent[1],
     price |-> ireq[r].sent[2].price,
     bid |-> ireq[r].sent[2].bid,
     ask |-> ireq[r].sent[2].ask,
     volume_24h |-> ireq[r].sent[2].volume_24h,
     change_24h |-> ireq[r].sent[2].change_24h,
     change_percent_24h |-> ireq[r].sent[2].change_percent_24h,
     market_cap |-> None,
     data_source |-> ireq[r].sent[2].data_source,
     last_updated |-> ireq[r].applied_at]

\* C3: under every interleaving of ticker ingests, once all have returned, each
\* upserted key has exactly one row and that row is, field for field, the one
\* sent by the ingest whose statement the store applied last; and the moment an
\* upsert is applied the stored row of its key is the row it sent.
C3_LastStatementWins ==
    (\A r \in IngestIds : ireq[r].pc = "done") =>
        \A r \in IngestIds :
            LatestOnKey(r) =>
                {row \in real_time_prices : PriceKey(row) = SentKey(r)} = {SentRow(r)}

C3_AppliedWhole ==
    \A r \in IngestIds :
        ireq[r].pc = "write" /\ Applied(r)' =>
            {row \in real_time_prices' : PriceKey(row) = SentKey(r)'} = {SentRow(r)'}

C3_AtomicUpsert == []C3_LastStatementWins /\ [][C3_AppliedWhole]_vars

\* Two ingests of one key overlapped: the one applied last had started before
\* the other's statement was applied, and they sent different rows.
C3_Witness ==
    /\ \A r \in IngestIds : ireq[r].pc = "done"
    /\ \E r, q \in IngestIds :
          /\ Applied(r) /\ Applied(q) /\ SentKey(r) = SentKey(q)
          /\ ireq[q].began_at < ireq[r].applied_at
          /\ ireq[r].applied_at < ireq[q].applied_at
          /\ ireq[r].sent[2].bid # ireq[q].sent[2].bid

TickerDone(r) == ireq[r].kind = "ticker" /\ ireq[r].pc = "done"

C17_NotFound ==
    \A r \in IngestIds :
        /\ ireq[r].kind = "ticker" /\ ireq[r].no_data =>
              /\ TickerDone(r)
              /\ ireq[r].resp.status = 404
              /\ ireq[r].create = "none"
              /\ ireq[r].applied_at = 0
        /\ TickerDone(r) /\ ireq[r].resp.status = 404 => ireq[r].no_data

C17_NothingWritten ==
    \A r \in IngestIds :
        ireq[r].pc = "idle" /\ ireq'[r].kind = "ticker" /\ ireq'[r].no_data =>
            symbols' = symbols /\ real_time_prices' = real_time_prices

\* C17: when the exchange answers a ticker request without error and with an
\* empty result, get_ticker hands back an empty structure instead of raising
\* and the ticker ingest ends at once with 404, having created no symbol and
\* written no price row; a ticker ingest ends with 404 in no other case (a
\* failed request ends with 500).
C17_EmptyTickerIsNoData == []C17_NotFound /\ [][C17_NothingWritten]_vars

\* One ticker ingest stored a price; another, for the same pair, met an empty
\* result and ended with 404, the stored row standing as it was.
C17_Witness ==
    \E r, q \in IngestIds :
        /\ TickerDone(q) /\ ireq[q].resp.status = 200 /\ Applied(q)
        /\ TickerDone(r) /\ ireq[r].no_data /\ ireq[r].resp.status = 404
        /\ q < r
        /\ real_time_prices = {SentRow(q)}
        /\ Cardinality(symbols) = 1

----------------------------------------------------------------------------
\* Claims on ingestion of both kinds (SpecIngest).

\* The exchange call of request r raised or gave no rows, no ticker.
NothingFetched(frame) == frame.exchange \in {"error", "empty"}

\* C36: an ingestion whose exchange call fails or gives no rows (OHLC) or no
\* ticker ends at that call, with 500 or 404: the store is as it was, and the
\* request never looks up or creates a symbol and never writes a market_data
\* or real_time_prices row.
C36_NoFetchNoWrite ==
    [][\A r \in IngestIds :
          NothingFetched(ireq'[r]) =>
              /\ ireq'[r].pc = "done"
              /\ ireq'[r].resp.status = (IF ireq'[r].exchange = "error" THEN 500 ELSE 404)
              /\ ireq'[r].symbol_id = 0 /\ ireq'[r].create = "none"
              /\ ireq'[r].written = 0 /\ ireq'[r].answered = 0
              /\ ireq'[r].applied_at = 0 /\ ireq'[r].sent = << >>
              /\ ireq[r].pc = "idle" =>
                    UNCHANGED <<symbols, market_data, real_time_prices, db_clock>>]_vars

\* An OHLC request was answered with no rows and a ticker request failed at
\* the exchange: nothing is stored.
C36_Witness ==
    \E r, q \in IngestIds :
        /\ ireq[r].kind = "ohlc" /\ ireq[r].exchange = "empty" /\ ireq[r].resp.status = 404
        /\ ireq[q].kind = "ticker" /\ ireq[q].exchange = "error" /\ ireq[q].resp.status = 500
        /\ symbols = {} /\ market_data = {} /\ real_time_prices = {}

----------------------------------------------------------------------------
\* Claims on the pair-catalog cache (SpecCatalog).

Snapshot == redis[KRAKEN_PAIRS_KEY]

SnapshotCatalog == json_loads(The(Snapshot).val).pairs

\* The cache handle exists and the server answers.
Reachable == is_connected(cache_instance = "client", redis_up)

\* The server does not answer, or the handle was made while it did not.
Unreachable == ~redis_up \/ cache_instance = "noclient"

\* The snapshot a catalog request stores for the catalog it fetched.
SnapshotOf(r) ==
    Some([val |-> json_dumps([pairs |-> The(creq[r].pairs), timestamp |-> r]),
          ttl |-> PAIRS_EXPIRATION])

Fetches(frame) == Len(SelectSeq(frame.calls, LAMBDA c : c = "fetch"))

PlainQuery(frame) == frame.kind = "query" /\ ~frame.refresh

\* The step of request r that leaves pc (a call of the handler has returned).
Leaves(r, pc) == creq[r].pc = pc /\ creq'[r].pc # pc

\* The step in which a query without refresh turns to the exchange or answers
\* from the cache.
Decides(r) ==
    /\ creq[r].pc \in {"idle", "read"}
    /\ creq'[r].pc \in {"fetch", "done"}
    /\ PlainQuery(creq'[r])

C5_Decision(r) ==
    Decides(r) =>
        /\ creq'[r].pc = "fetch" <=> ~(Reachable /\ Live(Snapshot))
        /\ creq'[r].pc = "done" =>
              /\ creq'[r].status = 200
              /\ creq'[r].from_cache
              /\ creq'[r].pairs = Some(SnapshotCatalog)
              /\ Fetches(creq'[r]) = 0
              /\ redis' = redis

C5_Miss(r) ==
    /\ Leaves(r, "fetch") /\ PlainQuery(creq[r]) =>
          /\ Fetches(creq'[r]) = 1
          /\ creq'[r].pc = "done" /\ creq'[r].status = 200 => ~creq'[r].from_cache
    /\ Leaves(r, "set") /\ PlainQuery(creq[r]) =>
          /\ Fetches(creq'[r]) = 1
          /\ creq'[r].pc = "done" /\ creq'[r].status = 200 /\ ~creq'[r].from_cache
          /\ IF Reachable THEN redis'[KRAKEN_PAIRS_KEY] = SnapshotOf(r)
             ELSE redis' = redis

\* The snapshot appears or is replaced only by a write, with the full TTL; it
\* goes only by the passing of time or by the clear of the refresh operation.
C5_Lifecycle ==
    Snapshot' # Snapshot =>
        \/ \E r \in CatalogIds : Leaves(r, "set") /\ Snapshot' = SnapshotOf(r)
        \/ /\ creq' = creq
           /\ Live(Snapshot)
           /\ \/ Snapshot' = None
              \/ /\ Live(Snapshot') /\ The(Snapshot').val = The(Snapshot).val
                 /\ The(Snapshot').ttl < The(Snapshot).ttl
        \/ \E r \in CatalogIds :
              creq[r].kind = "refresh" /\ Leaves(r, "clear") /\ Snapshot' = None

C6_ClearBeforeFetch ==
    [][\A r \in CatalogIds :
          Leaves(r, "fetch") /\ creq[r].refresh /\ creq[r].cache
              => \E i \in DOMAIN creq[r].calls : creq[r].calls[i] = "clear"]_vars

C6_Refresh(r) ==
    /\ Leaves(r, "clear") =>
          /\ creq[r].kind = "refresh"
          /\ creq'[r].pc = "fetch"
          /\ IF Reachable THEN \A k \in RedisKeySpace : redis'[k] = None ELSE redis' = redis
    /\ Leaves(r, "fetch") /\ creq[r].kind = "refresh" /\ creq[r].cache =>
          creq[r].calls = <<"clear">>
    /\ Leaves(r, "fetch") /\ PlainQuery(creq[r]) = FALSE /\ creq[r].kind = "query" =>
          creq[r].calls = << >>

C6_NeverServesCache(r) ==
    /\ creq[r].refresh /\ creq'[r].pc = "done" /\ creq'[r].status = 200 =>
          ~creq'[r].from_cache /\ Fetches(creq'[r]) = 1
    /\ Leaves(r, "fetch") /\ creq[r].refresh /\ creq'[r].pairs # None =>
          creq'[r].pairs = Some(exchange_pairs)
    /\ creq[r].refresh => \A i \in DOMAIN creq'[r].calls : creq'[r].calls[i] # "read"

C6_Recache(r) ==
    Leaves(r, "set") /\ creq[r].refresh /\ Reachable =>
        redis'[KRAKEN_PAIRS_KEY] = SnapshotOf(r)

\* C6, amended: only the refresh operation clears the snapshot (every key of
\* the pattern) before it calls the exchange, whatever the fetch then does; the
\* query with refresh = true skips the cache read and the clear, fetches, and
\* overwrites the snapshot.  Neither serves cached data, and right after the
\* re-caching write of either, made with the cache reachable, the cache holds
\* the catalog just fetched with a TTL of 3600 seconds.
C6_ForcedRefresh ==
    [][\A r \in CatalogIds : C6_Refresh(r) /\ C6_NeverServesCache(r) /\ C6_Recache(r)]_vars

\* A refresh operation replaced the snapshot a query had stored.
C6_Witness ==
    \E r, q \in CatalogIds :
        /\ PlainQuery(creq[q]) /\ creq[q].pc = "done"
        /\ creq[q].calls = <<"read", "fetch", "set">>
        /\ creq[q].pairs = Some(CatalogOld)
        /\ creq[r].kind = "refresh" /\ creq[r].pc = "done" /\ creq[r].status = 200
        /\ creq[r].calls = <<"clear", "fetch", "set">>
        /\ CatalogAnswer(creq[r]).cached
        /\ last_writer = r
        /\ Live(Snapshot) /\ SnapshotCatalog = CatalogNew

\* The answer of a query but for its from_cache flag.
Payload(frame) == [CatalogAnswer(frame) EXCEPT !.from_cache = FALSE]

C7_Answers ==
    \A r \in CatalogIds :
        creq[r].pc = "done" =>
            /\ creq[r].status \in {200, 500}
            /\ creq[r].status = 500 =>
                  /\ creq[r].pairs = None
                  /\ creq[r].calls # << >>
                  /\ creq[r].calls[Len(creq[r].calls)] = "fetch"
            /\ creq[r].status = 200 /\ creq[r].kind = "query" =>
                  /\ creq[r].pairs # None
                  /\ \A q \in CatalogIds :
                        /\ creq[q].pc = "done" /\ creq[q].status = 200
                        /\ creq[q].kind = "query"
                        /\ creq[q].from_cache /\ ~creq[r].from_cache
                        /\ creq[q].pairs = creq[r].pairs /\ creq[q].params = creq[r].params
                        => Payload(creq[q]) = Payload(creq[r])

C7_Degrades ==
    \A r \in CatalogIds :
        creq'[r] # creq[r] /\ Unreachable =>
            /\ redis' = redis
            /\ creq[r].pc \in {"idle", "read"} => creq'[r].pc = "fetch"
            /\ Leaves(r, "fetch") /\ creq'[r].pairs # None =>
                  creq'[r].pairs = Some(exchange_pairs)

C8_LastWriterWins ==
    Live(Snapshot) =>
        /\ last_writer \in CatalogIds
        /\ Snapshot = [SnapshotOf(last_writer) EXCEPT ![1].ttl = The(Snapshot).ttl]

C8_OwnCatalog ==
    \A r \in CatalogIds :
        /\ Leaves(r, "fetch") /\ creq'[r].pairs # None =>
              creq'[r].pairs = Some(exchange_pairs) /\ ~creq'[r].from_cache
        /\ Leaves(r, "set") =>
              /\ creq'[r].pairs = creq[r].pairs /\ ~creq'[r].from_cache
              /\ Reachable => redis'[KRAKEN_PAIRS_KEY] = SnapshotOf(r) /\ last_writer' = r
        /\ creq[r].pc = "done" => creq'[r] = creq[r]

C8_Running == creq[MaxCatalog].pc \notin {"idle", "done"}

\* C8: a request that called the exchange keeps and answers from the catalog it
\* fetched itself and writes it as the snapshot; a stored snapshot is the one
\* of the request that wrote last; and a
\* request never waits for another: the request taken last returns even if
\* every other request has stopped half-way, between its calls.
C8_CacheAside == []C8_LastWriterWins /\ [][C8_OwnCatalog]_vars /\ (C8_Running ~> ~C8_Running)

\* Every request is a query that missed and has called the exchange, none has
\* written yet, and they did not all fetch the same catalog.
C8_Witness ==
    /\ \A r \in CatalogIds :
          /\ PlainQuery(creq[r]) /\ creq[r].pc = "set"
          /\ creq[r].calls = <<"read", "fetch">>
    /\ \E r, q \in CatalogIds : creq[r].pairs # creq[q].pairs
    /\ ~Live(Snapshot)

\* Request r has fetched a catalog from the exchange and written it.
Wrote(r) ==
    /\ creq[r].pairs # None
    /\ The(creq[r].pairs) \in {CatalogOld, CatalogNew}
    /\ \E i, j \in DOMAIN creq[r].calls :
          i < j /\ creq[r].calls[i] = "fetch" /\ creq[r].calls[j] = "set"

\* C25: the value under the catalog key is absent or is, whole, the catalog
\* one request fetched from the exchange, with the timestamp of that request;
\* a request answered from the cache answers with such a catalog.
C25_SnapshotIsOneFetch ==
    /\ Live(Snapshot) =>
          \E r \in CatalogIds :
             /\ Wrote(r)
             /\ json_loads(The(Snapshot).val) = [pairs |-> The(creq[r].pairs), timestamp |-> r]
    /\ \A q \in CatalogIds :
          creq[q].from_cache =>
             \E r \in CatalogIds \ {q} : Wrote(r) /\ creq[q].pairs = creq[r].pairs

\* The snapshot is the new catalog, written over the old one by a request
\* that fetched after another had cached the old one.
C25_Witness ==
    /\ Live(Snapshot)
    /\ SnapshotCatalog = CatalogNew
    /\ \E r, q \in CatalogIds :
          /\ r # q
          /\ Wrote(r) /\ Wrote(q)
          /\ creq[r].pairs = Some(CatalogOld)
          /\ creq[q].pairs = Some(CatalogNew)
          /\ json_loads(The(Snapshot).val).timestamp = q

\* The snapshot in the cache is the one request r stored.
SnapshotWrittenBy(r) == Live(Snapshot) /\ json_loads(The(Snapshot).val).timestamp = r

\* C32: the snapshot a completed refresh operation stored is never replaced
\* by a catalog fetched from the exchange before the refresh's own fetch.  The
\* exchange lists CatalogOld and later CatalogNew: the snapshot of a refresh
\* that fetched CatalogNew is never overwritten with CatalogOld.
C32_RefreshNotOverwrittenByOlder ==
    [][\A r \in CatalogIds :
          /\ creq[r].kind = "refresh" /\ creq[r].pc = "done" /\ creq[r].status = 200
          /\ creq[r].pairs = Some(CatalogNew)
          /\ SnapshotWrittenBy(r)
          /\ Live(Snapshot') /\ Snapshot' # Snapshot
          => json_loads(The(Snapshot').val).pairs # CatalogOld]_vars

\* C33: the from_cache flag of a query's answer is true if and only if the
\* query answered from the catalog it read from the cache and made no call to
\* the exchange; a query that called the exchange answers from_cache = false.
C33_FromCacheIffNoExchangeCall ==
    \A r \in CatalogIds :
        creq[r].kind = "query" /\ creq[r].pc = "done" /\ creq[r].status = 200 =>
            /\ CatalogAnswer(creq[r]).from_cache <=> creq[r].calls = <<"read">>
            /\ Fetches(creq[r]) > 0 => ~CatalogAnswer(creq[r]).from_cache

\* C35: the cache comes back after an outage.  When the first request of the
\* process began while the server did not answer (the shared handle was made
\* then) and queries began later with the server answering again, one of
\* those queries, at the latest the last, got the cache handle.
C35_CacheRecovers ==
    LET Later == {q \in CatalogIds : q > 1 /\ creq[q].kind = "query" /\ creq[q].up}
    IN  /\ \A r \in CatalogIds : creq[r].pc = "done"
        /\ ~creq[1].up
        /\ Later # {}
        => \E q \in Later : creq[q].handle

----------------------------------------------------------------------------
\* Claims on the catalog query (SpecQuery).

Answered == qreq.pc = "done" /\ qreq.status = 200

\* The number of filtered native codes that sort before name.
Rank(name) == Cardinality({other \in qreq.filtered : StrLess(other, name)})

\* C12: the pairs returned are the filtered native codes of ranks offset ..
\* offset + limit - 1 in ascending order (as many of them as exist, none when
\* offset >= the filtered total, which is no error), and has_more is true
\* exactly when offset + limit < the filtered total.
C12_Pagination ==
    Answered =>
        LET body == The(qreq.body)
            N == The(qreq.params).offset
            M == The(qreq.params).limit
            total == Cardinality(qreq.filtered)
            upto == IF N + M < total THEN N + M ELSE total
        IN  /\ Len(body.pairs) = (IF N < total THEN upto - N ELSE 0)
            /\ \A i \in DOMAIN body.pairs :
                  body.pairs[i] \in qreq.filtered /\ Rank(body.pairs[i]) = N + i - 1
            /\ body.pagination.has_more = (N + M < total)
            /\ body.pagination.returned = Len(body.pairs)
            /\ body.pagination.total = total

\* The second page of two out of five listings, with more to come.
C12_Witness ==
    /\ Answered
    /\ The(qreq.params).offset = 2 /\ The(qreq.params).limit = 2
    /\ The(qreq.body).pairs = <<XBTUSD, XBTUSDT>>
    /\ The(qreq.body).pagination.has_more
    /\ Cardinality(qreq.filtered) = 5

\* The entries of the fetched catalog whose status is the given text.
WithStatus(text) ==
    {name \in DOMAIN The(qreq.pairs) :
        /\ "status" \in DOMAIN The(qreq.pairs)[name]
        /\ The(qreq.pairs)[name].status = Some(text)}

NoSearch == The(qreq.params).search = None

\* C13, as stated: the status "all" passes every entry of the catalog and every
\* other status value keeps exactly the entries whose status equals it.
C13_StatusEquals ==
    Answered /\ NoSearch =>
        qreq.filtered = IF The(qreq.params).status = Some("all")
                        THEN DOMAIN The(qreq.pairs)
                        ELSE WithStatus(The(The(qreq.params).status))

\* C13, amended: the status "all" and the empty status pass every entry of the
\* catalog; every other status value keeps exactly the entries whose status
\* equals it (a search can only narrow the result further).
C13_StatusFilter ==
    Answered =>
        LET status == The(The(qreq.params).status)
            kept == IF status \in {"all", ""} THEN DOMAIN The(qreq.pairs)
                    ELSE WithStatus(status)
        IN  /\ qreq.filtered \subseteq kept
            /\ NoSearch => qreq.filtered = kept
            /\ NoSearch => The(qreq.body).filtered_pairs = Cardinality(kept)

\* A query by "cancel_only" of five listings got the one in that status.
C13_Witness ==
    /\ Answered /\ NoSearch
    /\ The(qreq.params).status = Some("cancel_only")
    /\ qreq.filtered = {ETHUSD}
    /\ The(qreq.body).total_pairs = 5
    /\ The(qreq.body).active_pairs = 2

\* term occurs in text, letter case aside.
Contains(term, text) ==
    \E i \in 0..(Len(text) - Len(term)) :
        \A j \in 1..Len(term) : StrUpper(text)[i + j] = StrUpper(term)[j]

\* The term set of a search: the term, "xdg" for "doge", "xbt" for "btc".
TermSet(search) ==
    {term \in {search, <<"x","d","g">>, <<"x","b","t">>} :
        \/ term = search
        \/ term = <<"x","d","g">> /\ Contains(<<"d","o","g","e">>, search)
        \/ /\ term = <<"x","b","t">>
           /\ Contains(<<"b","t","c">>, search)
           /\ ~Contains(<<"x","b","t">>, search)}

\* The texts of a catalog entry that a search looks into.
SearchedTexts(name) ==
    LET info == The(qreq.pairs)[name]
    IN  {name} \cup {info[field] : field \in DOMAIN info \cap {"wsname", "altname", "base", "quote"}}

\* The entries the status filter let through (C13).
StatusKept ==
    LET status == The(The(qreq.params).status)
    IN  IF status \in {"all", ""} THEN DOMAIN The(qreq.pairs) ELSE WithStatus(status)

\* C14: with a search term given, an entry that passed the status filter is
\* kept if and only if some term of the term set (the term, plus "xdg" if it
\* contains "doge", plus "xbt" if it contains "btc" and not "xbt") occurs,
\* letter case aside, in its native code, wsname, altname, base or quote; and
\* a search for "doge" under status "all" returns the codes containing "xdg".
C14_SearchFilter ==
    Answered /\ ~NoSearch =>
        LET search == The(The(qreq.params).search)
        IN  /\ qreq.filtered =
                  {name \in StatusKept :
                      \E term \in TermSet(search), text \in SearchedTexts(name) :
                          Contains(term, text)}
            /\ Contains(<<"d","o","g","e">>, search) /\ The(qreq.params).status = Some("all") =>
                  \A name \in DOMAIN The(qreq.pairs) :
                      Contains(<<"x","d","g">>, name) => name \in qreq.filtered

\* A search for "doge" under status "all" found XDGUSD among five listings, on
\* its first page.
C14_Witness ==
    /\ Answered
    /\ The(qreq.params).search = Some(<<"d","o","g","e">>)
    /\ The(qreq.params).status = Some("all")
    /\ Cardinality(DOMAIN The(qreq.pairs)) = 5
    /\ qreq.filtered = {XDGUSD}
    /\ The(qreq.body).pairs = <<XDGUSD>>

\* The text a listing is shown under: its wsname, else its altname, else its
\* native code.
DisplayName(catalog, name) ==
    LET info == catalog[name]
    IN  IF "wsname" \in DOMAIN info /\ info.wsname # << >> THEN info.wsname
        ELSE IF "altname" \in DOMAIN info /\ info.altname # << >> THEN info.altname
        ELSE name

\* C39: in every 200 answer of the catalog query, pairs and pairs_detail have
\* the same length, which is pagination.returned and at most the limit;
\* pairs_detail[i].pair is pairs[i] for every i; filtered_pairs is at most
\* total_pairs; active_pairs is the number of listings of the catalog whose
\* status is online, whatever the status filter, search term, offset and limit
\* are; and every detail's name is the listing's wsname, else its altname, else
\* its native code.
C39_ResponseConsistent ==
    Answered =>
        LET body == The(qreq.body)
            catalog == The(qreq.pairs)
        IN  /\ Len(body.pairs) = Len(body.pairs_detail)
            /\ Len(body.pairs) = body.pagination.returned
            /\ body.pagination.returned <= The(qreq.params).limit
            /\ \A i \in DOMAIN body.pairs :
                  /\ body.pairs_detail[i].pair = body.pairs[i]
                  /\ body.pairs_detail[i].name = DisplayName(catalog, body.pairs[i])
            /\ body.filtered_pairs <= body.total_pairs
            /\ body.total_pairs = Cardinality(DOMAIN catalog)
            /\ body.active_pairs =
                  Cardinality({name \in DOMAIN catalog :
                                  "status" \in DOMAIN catalog[name]
                                  /\ catalog[name].status = Some("online")})

\* A page of a search that shows a listing whose wsname is empty under its
\* altname and a listing without names under its native code, both online.
C39_Witness ==
    /\ Answered
    /\ The(qreq.pairs) = CatalogBare
    /\ The(qreq.params).status = Some("online")
    /\ The(qreq.params).search = Some(<<"U","s","d">>)
    /\ The(qreq.body).pairs = <<ETHUSD, XDGUSD>>
    /\ The(qreq.body).pairs_detail[1].name = <<"e","t","h","u","s","d">>
    /\ The(qreq.body).pairs_detail[2].name = XDGUSD
    /\ The(qreq.body).active_pairs = 2

----------------------------------------------------------------------------
\* Claims on the symbol sync (SpecSync).

\* C9: when a sync finds a stored symbol whose is_active disagrees with the
\* catalog's status and the store answers its update, the stored row is the
\* row it found with is_active set to (status = online) and no other field
\* changed, the rows of every other symbol staying as they were.
C9_OnlyActiveFlagChanges ==
    [][\A r \in SyncIds :
          sreq[r].pc = "update" /\ sreq'[r].pc # "update" /\ sreq'[r].last_ret =>
              LET kraken_pair == Head(sreq[r].todo)[1]
                  db_symbol == Head(sreq[r].todo)[2]
                  online == The(sreq[r].pairs)[kraken_pair].status = Some("online")
              IN  symbols' = {IF row.symbol = db_symbol
                              THEN [row EXCEPT !.is_active = online]
                              ELSE row : row \in symbols}]_vars


\* The symbols a sync may touch: the values of the mapping whose native code
\* is in the catalog the sync fetched.
AllowList(pairs) ==
    {get_kraken_symbol_mapping[kraken_pair] :
        kraken_pair \in DOMAIN get_kraken_symbol_mapping \cap DOMAIN pairs}

InLoop(r) == sreq[r].pc \in {"lookup", "create", "update"}

C15_Target ==
    \A r \in SyncIds :
        InLoop(r) =>
            /\ Head(sreq[r].todo)[1] \in DOMAIN get_kraken_symbol_mapping
            /\ Head(sreq[r].todo)[1] \in DOMAIN The(sreq[r].pairs)
            /\ Head(sreq[r].todo)[2] \in AllowList(The(sreq[r].pairs))

C15_Frame ==
    \A r \in SyncIds :
        sreq'[r] # sreq[r] =>
            IF InLoop(r)
            THEN \A row \in symbols \cup symbols' :
                    row.symbol \notin AllowList(The(sreq[r].pairs))
                        => row \in symbols /\ row \in symbols'
            ELSE symbols' = symbols

\* C15: every store call of a sync, read or write, is for a symbol that the
\* mapping gives for a native code of the catalog the sync fetched; a step of
\* a sync neither creates nor changes a row of any other symbol, so listings
\* without a mapping and mapped pairs that the catalog lacks leave the symbols
\* as they were.
C15_AllowListSync == []C15_Target /\ [][C15_Frame]_vars

\* A sync created BTC/USD and ETH/USD next to the rows of XDGUSD (listed, not
\* mapped) and BTC/USDT (mapped, not listed), which stand as they were made.
C15_Witness ==
    /\ \E r \in SyncIds : sreq[r].pc = "done" /\ sreq[r].status = 200 /\ sreq[r].created_count = 2
    /\ Cardinality(symbols) = 4
    /\ \E row \in symbols : row.symbol = XDGUSD /\ row.id <= 2 /\ row.name = XDGUSD
    /\ \E row \in symbols :
          row.symbol = get_kraken_symbol_mapping[XBTUSDT] /\ row.id <= 2 /\ row.is_active
    /\ \E row \in symbols : row.symbol = get_kraken_symbol_mapping[XBTUSD] /\ row.id > 2
    /\ \E row \in symbols : row.symbol = get_kraken_symbol_mapping[ETHUSD] /\ row.id > 2


\* No symbol is stored twice.
OneRowPerSymbol == \A a, b \in symbols : a.symbol = b.symbol => a = b

\* C34: a sync that begins after clean syncs of the same catalog have
\* returned (every store call answered with success), and whose own store
\* calls succeed, creates nothing, updates nothing and reports 0 and 0.
C34_SyncConverges ==
    \A r \in SyncIds :
        sreq[r].follows /\ ~sreq[r].failed /\ OneRowPerSymbol =>
            /\ sreq[r].created_count = 0
            /\ sreq[r].updated_count = 0
            /\ sreq[r].pc \notin {"create", "update"}

\* C37: the counts of a sync are the store's: every symbol counted as created
\* is a row the sync added, and every symbol counted as updated is a row the
\* sync changed, also when create or update statements fail.
C37_CountsMatchStore ==
    [][\A r \in SyncIds :
          /\ sreq'[r].created_count > sreq[r].created_count =>
                \E row \in symbols' \ symbols : row.symbol = Head(sreq[r].todo)[2]
          /\ sreq'[r].updated_count > sreq[r].updated_count =>
                \E row \in symbols \ symbols' : row.symbol = Head(sreq[r].todo)[2]]_vars

----------------------------------------------------------------------------
\* Claims on the exchange client (SpecClient).

Called == kreq.pc = "done"

\* The response to the first request is a body whose error list is empty (or
\* missing, which the client reads as empty).
FirstIsGood ==
    /\ kreq.wire[1].kind = "json"
    /\ "error" \in DOMAIN kreq.wire[1].body => kreq.wire[1].body.error = << >>

\* The result carried by the response to the first request ({} if none).
FirstResult ==
    IF "result" \in DOMAIN kreq.wire[1].body THEN kreq.wire[1].body.result ELSE << >>

\* C16: a call of get_ohlc, get_ticker or get_asset_pairs sends exactly one
\* request, whatever the response; it raises exactly when the request failed
\* in transport, came back with an HTTP error status or carried a non-empty
\* error list, and then hands no result to the caller; otherwise it returns
\* what the response to that one request carried.
C16_OneRequestNoRetry ==
    Called =>
        /\ kreq.out.sent = 1
        /\ kreq.out.error = ~FirstIsGood
        /\ kreq.call = "AssetPairs" =>
              kreq.out.result = (IF FirstIsGood THEN FirstResult ELSE << >>)
        /\ kreq.call \in {"OHLC", "Ticker"} =>
              kreq.out.data = (IF FirstIsGood /\ FirstResult # << >>
                               THEN FirstResult[1][2] ELSE << >>)

\* The first request of a ticker call got no response while a second one
\* would have been answered with a ticker: the call raised after one request.
C16_Witness ==
    /\ Called /\ kreq.call = "Ticker"
    /\ kreq.wire[1].kind = "transport"
    /\ kreq.wire[2] = [kind |-> "json",
                       body |-> [error |-> << >>, result |-> << <<"XXBTZUSD", Ticker1>> >>]]
    /\ kreq.out.error /\ kreq.out.sent = 1

----------------------------------------------------------------------------
\* Claims on the parsers (SpecParse).

TickerParsed == preq.pc = "done" /\ preq.fn = "parse_ticker_data"

\* The reference open price of the payload is known: "o" is there and denotes
\* a number.
OpenKnown == "o" \in DOMAIN preq.input /\ preq.input["o"].form = "numeric"

Produced == "change_percent_24h" \in DOMAIN preq.out

\* C19: in every record parse_ticker_data produces, change_percent_24h is
\* non-null exactly when the open price is known and strictly positive, and is
\* then (price - open) / open * 100; a missing, zero or non-numeric open price
\* gives a record with a null change_percent_24h, and no exception.
C19_ChangePercent ==
    TickerParsed =>
        /\ Produced
        /\ (preq.out.change_percent_24h # None) <=> (OpenKnown /\ preq.input["o"].val > 0)
        /\ preq.out.change_percent_24h # None =>
              LET percent == The(preq.out.change_percent_24h)
                  open == preq.input["o"].val
              IN  /\ percent[2] # 0
                  /\ percent[1] * open = (preq.out.price - open) * 100 * percent[2]

\* A payload whose open price is the text "0" has been parsed: the text is
\* truthy, converts to 0.0, and the record has a null change_percent_24h.
C19_Witness ==
    /\ TickerParsed
    /\ Produced
    /\ OpenKnown
    /\ preq.input["o"] = Str(0)
    /\ preq.out.change_24h # None
    /\ preq.out.change_percent_24h = None

OhlcParsed == preq.pc = "done" /\ preq.fn = "parse_ohlc_data"

\* The positions of the input rows that have at least 8 fields.
LongRows == {i \in 1..Len(preq.input) : Len(preq.input[i]) >= 8}

\* C20: parse_ohlc_data gives one record for every input row of 8 or more
\* fields, in the order of the input, with adjusted_close equal to close, the
\* volume of field index 6 and the timeframe label given; a shorter row gives
\* nothing and no error.
C20_ShortRowsSkipped ==
    OhlcParsed =>
        /\ Len(preq.out) = Cardinality(LongRows)
        /\ \A i \in LongRows :
              LET k == Cardinality({j \in LongRows : j <= i})
                  row == preq.input[i]
                  record == preq.out[k]
              IN  /\ record.timestamp = row[1]
                  /\ record.open = row[2]
                  /\ record.close = row[5]
                  /\ record.adjusted_close = Some(record.close)
                  /\ record.volume = row[7]
                  /\ record.time_frame = preq.label

\* Rows of 3 and of 7 fields between two full rows have been parsed to the
\* two records of the full rows.
C20_Witness ==
    /\ OhlcParsed
    /\ Len(preq.input) = 3
    /\ Len(preq.input[1]) >= 8
    /\ Len(preq.input[2]) \in 1..7
    /\ Len(preq.input[3]) >= 8
    /\ preq.input[1] # preq.input[3]
    /\ Len(preq.out) = 2
    /\ preq.out[2].timestamp = preq.input[3][1]

Normalized == preq.pc = "done" /\ preq.fn = "normalize_pair"

\* The text without its separators.
Letters(text) == SelectSeq(text, LAMBDA c : c \notin {"/", "-"})

\* Two texts are the same up to the case of their letters.
SameUpToCase(a, b) ==
    /\ Len(a) = Len(b)
    /\ \A i \in 1..Len(a) :
          \/ a[i] = b[i]
          \/ \E k \in DOMAIN LowerLetters : {a[i], b[i]} = {LowerLetters[k], UpperLetters[k]}

AllUpper(text) == \A i \in 1..Len(text) : \A k \in DOMAIN LowerLetters : text[i] # LowerLetters[k]

\* The cleaned text has an entry in the alias table.
Aliased(text) == \E key \in DOMAIN normalize_mappings : SameUpToCase(Letters(text), key)

\* C21: normalize_pair gives the same native code to inputs that differ only
\* in case and separators (BTC/USD, btcusd and BTC-USD all give XBTUSD), and
\* gives an input without alias entry its cleaned form: the letters of the
\* input, upper-cased, without separators.
C21_NormalizePair ==
    Normalized =>
        LET pair == preq.input[1]
            other == preq.input[2]
        IN  /\ SameUpToCase(Letters(pair), Letters(other)) => preq.out[1] = preq.out[2]
            /\ SameUpToCase(Letters(pair), <<"B","T","C","U","S","D">>) => preq.out[1] = XBTUSD
            /\ ~Aliased(pair) =>
                  /\ SameUpToCase(preq.out[1], Letters(pair))
                  /\ AllUpper(preq.out[1])
                  /\ preq.out[1] = Letters(preq.out[1])

\* "btc-usd" and "BTC/USD" have been normalized, both to XBTUSD.
C21_Witness ==
    /\ Normalized
    /\ preq.input = << <<"b","t","c","-","u","s","d">>, <<"B","T","C","/","U","S","D">> >>
    /\ preq.out = <<XBTUSD, XBTUSD>>

IntervalAsked == preq.pc = "done" /\ preq.fn = "get_timeframe_interval"

\* C22: get_timeframe_interval maps 1m, 5m, 15m, 30m, 1h, 4h, 1d, 1w, 1M to
\* 1, 5, 15, 30, 60, 240, 1440, 10080, 21600 and every other label to 60.
C22_TimeframeTable ==
    IntervalAsked =>
        preq.out = << CASE preq.label = "1m" -> 1
                        [] preq.label = "5m" -> 5
                        [] preq.label = "15m" -> 15
                        [] preq.label = "30m" -> 30
                        [] preq.label = "1h" -> 60
                        [] preq.label = "4h" -> 240
                        [] preq.label = "1d" -> 1440
                        [] preq.label = "1w" -> 10080
                        [] preq.label = "1M" -> 21600
                        [] OTHER -> 60 >>

\* The unknown label "2h" has been mapped to 60.
C22_Witness == IntervalAsked /\ preq.label = "2h" /\ preq.out = <<60>>

----------------------------------------------------------------------------
\* Claims on the direct calls of the store client (SpecCrud).

\* The call made last was fn and answered success; the call made now is a
\* get_symbol_by_name of the same symbol.
ThenGet(fn) ==
    /\ dreq.fn = fn
    /\ dreq.ret
    /\ dreq'.fn = "get_symbol_by_name"
    /\ dreq'.symbol = dreq.symbol

Found == dreq'.found

\* What the round trip promises of the lookup that follows a create of a
\* symbol not stored before, an update of a stored symbol, and a delete.
RoundTrip ==
    /\ ThenGet("create_symbol") /\ dreq.before = {} =>
          /\ Found # None
          /\ The(Found).symbol = dreq.arg.symbol
          /\ The(Found).name = dreq.arg.name
          /\ The(Found).exchange = dreq.arg.exchange
    /\ ThenGet("update_symbol") /\ Cardinality(dreq.before) = 1 =>
          /\ Found # None
          /\ \A key \in {"name", "sector", "market_cap"} \cap DOMAIN dreq.arg :
                The(Found)[key] = dreq.arg[key]
          /\ \A row \in dreq.before :
                The(Found).symbol = row.symbol /\ The(Found).exchange = row.exchange
    /\ ThenGet("delete_symbol") => Found = None

----------------------------------------------------------------------------
\* Claims on the direct write requests (SpecWrite).

\* The request is at its lookup and no row of symbols has its symbol.
LookupOfAbsent == dreq.pc = "lookup" /\ \A row \in symbols : row.symbol # dreq.symbol

\* C24: POST /market-data and POST /real-time-prices never create a symbol:
\* a request whose symbol is not stored at its lookup ends there with 404, and
\* no step of a request adds a symbol; a request that ended with 404 wrote no
\* market_data row and no real_time_prices row.
C24_NoAutoCreate ==
    /\ [][dreq' # dreq =>
            /\ symbols' = symbols
            /\ LookupOfAbsent =>
                  /\ dreq'.pc = "done"
                  /\ dreq'.status = 404
                  /\ market_data' = market_data
                  /\ real_time_prices' = real_time_prices]_vars
    /\ [](dreq.pc = "done" /\ dreq.before = {} =>
            /\ dreq.status = 404
            /\ market_data = {}
            /\ real_time_prices = {})

\* A request for XYZ, which no row has, has ended with 404 and nothing is
\* stored.
C24_Witness ==
    /\ dreq.pc = "done"
    /\ dreq.symbol = XYZ
    /\ dreq.ok
    /\ dreq.status = 404
    /\ symbols = {}
    /\ market_data = {}
    /\ real_time_prices = {}

----------------------------------------------------------------------------
\* Claims on the store client and its statement batches (SpecStore).

Batch == dreq.fn \in {"create_tables", "seed_data"}

\* The positions of the statements the batch has executed, and the positions
\* of those among them the store did not answer with success.
Ran == {dreq.executed[k][1] : k \in DOMAIN dreq.executed}

Failed == {dreq.executed[k][1] : k \in {j \in DOMAIN dreq.executed : ~dreq.executed[j][2]}}

\* C26: a batch executes its statements in file order; the first statement
\* the store does not answer with success is reported, ends the batch with
\* False and is the last one executed; True is returned only when every
\* executed statement succeeded.
C26_FailFast ==
    /\ [](Batch =>
            /\ \A j, k \in DOMAIN dreq.executed : j < k => dreq.executed[j][1] < dreq.executed[k][1]
            /\ \A i \in Failed :
                  /\ dreq.pc = "done" /\ ~dreq.ret
                  /\ dreq.reported = <<i>>
                  /\ \A j \in Ran : j <= i
            /\ dreq.pc = "done" /\ dreq.ret => Failed = {}
            /\ Failed = {} => dreq.reported = << >>)
    /\ [][Batch /\ dreq.pc = "done" => dreq' = dreq]_vars

\* create_tables has run a file of three statements: the first succeeded, the
\* second failed, the third was never executed, and False was returned.
C26_Witness ==
    /\ Batch
    /\ dreq.fn = "create_tables"
    /\ dreq.pc = "done"
    /\ Len(dreq.file) = 3
    /\ StartsWithAny(dreq.file[3], BatchPrefixes(dreq.fn))
    /\ dreq.executed = << <<1, TRUE>>, <<2, FALSE>> >>
    /\ dreq.reported = <<2>>
    /\ ~dreq.ret

Requested == dreq.fn \in DbMethods /\ dreq.pc = "done"

\* C29: no method of the prepared-statement client raises: an HTTP error
\* status or a transport failure comes back as a value with success = false
\* (valid = false for validate_sql) and an error text, and a JSON body comes
\* back as it is.
C29_FailureIsAValue ==
    Requested =>
        /\ ~dreq.out.raised
        /\ dreq.reply.kind = "json" => dreq.out.value = dreq.reply.body
        /\ dreq.reply.kind # "json" =>
              LET flag == IF dreq.fn = "validate_sql" THEN "valid" ELSE "success"
              IN  /\ DOMAIN dreq.out.value = {flag, "error"}
                  /\ dreq.out.value[flag] = FALSE
                  /\ dreq.out.value["error"] # ""

\* execute_prepared_insert has met a transport failure and returned
\* success = false.
C29_Witness ==
    /\ Requested
    /\ dreq.fn = "execute_prepared_insert"
    /\ dreq.reply.kind = "transport"
    /\ ~dreq.out.raised
    /\ dreq.out.value["success"] = FALSE

\* The first response of an OHLC call is good and its result has the pair
\* key and the "last" key.
OhlcAnswered ==
    /\ Called /\ kreq.call = "OHLC" /\ FirstIsGood
    /\ {FirstResult[i][1] : i \in DOMAIN FirstResult} = {XBTUSD, LastKey}

\* C27: for a successful result that has one pair key and the "last" key, in
\* either order, get_ohlc returns the pair key as the pair, that key's rows as
\* the data and the value of "last" as the cursor; for an empty result it
\* returns the pair asked for with no rows and no error.
C27_PairKeyAndCursor ==
    /\ OhlcAnswered =>
          /\ ~kreq.out.error
          /\ kreq.out.pair = XBTUSD
          /\ \E i \in DOMAIN FirstResult :
                FirstResult[i][1] = XBTUSD /\ kreq.out.data = FirstResult[i][2]
          /\ \E i \in DOMAIN FirstResult :
                FirstResult[i][1] = LastKey /\ kreq.out.last = FirstResult[i][2]
    /\ Called /\ kreq.call = "OHLC" /\ FirstIsGood /\ FirstResult = << >> =>
          /\ ~kreq.out.error
          /\ kreq.out.pair = XBTUSD
          /\ kreq.out.data = << >>

\* C28: every ticker record that parse_ticker_data produced and ticker
\* ingestion wrote to the store has a price above zero, whatever sub-fields
\* the raw payload lacks.
C28_PositivePrice ==
    /\ \A row \in real_time_prices : row.price > 0
    /\ \A r \in IngestIds : Applied(r) => ireq[r].sent[2].price > 0

\* C38: for every native code of the symbol mapping, the symbol add_pair
\* infers when no db_symbol is given is the symbol the mapping gives, which
\* is the one ingestion stores the pair under.
C38_InferredIsMapped ==
    preq.pc = "done" /\ preq.fn = "add_kraken_pair"
    /\ preq.input[1] \in DOMAIN get_kraken_symbol_mapping
    => /\ preq.out[2] = get_kraken_symbol_mapping[preq.input[1]]
       /\ preq.out[1] = preq.out[2]

====
